---- MODULE Spec2Model ----
(***************************************************************************)
(* The orchestration graph of agentic-pal (src/agent/graph) on one         *)
(* conversation thread: the thread's checkpointed AgentState, the nodes    *)
(* wired by build_agent_graph, and the entry points that invoke the        *)
(* compiled graph (src/main.py, src/api/main.py).                          *)
(*                                                                         *)
(* Encoding of the Python values:                                          *)
(*   - an absent or None string field is the string "None";                *)
(*   - an absent or None list is <<>>, an absent dict the empty function:  *)
(*     every read in the sources goes through state.get(key, default) or   *)
(*     a truth test, which do not tell them apart;                         *)
(*   - the action id "a<n>" is the number n;                               *)
(*   - a text produced by the language model is represented by the data    *)
(*     the model was handed (the synthesizer's results summary).           *)
(***************************************************************************)
EXTENDS Integers, Sequences, FiniteSets, TLC

\* ------------------------------------------------------------------ bounds
\* Longest plan the language model is let to build.
MaxActions == 2
\* Number of graph invocations made on the thread, and of process_message
\* calls made on the Agent object.
MaxTurns == 2
\* Number of calls made on the MetaTools and AgentTools objects.
MaxApiCalls == 2
\* Most tool calls in one response of the language model.
MaxToolCalls == 1

\* ------------------------------------------------------- program constants
\* plan_actions.py: "max_iterations = 10  # Prevent infinite loops"
max_iterations == 10

None == "None"

\* plan_actions.py / confirm_actions.py: the tools that require confirmation.
DESTRUCTIVE_TOOLS == {"delete_calendar_event", "delete_task"}

\* confirm_actions.py: DESTRUCTIVE_TOOLS maps the tool to its item type.
ItemType(tool) ==
    CASE tool = "delete_calendar_event" -> "calendar event"
      [] tool = "delete_task" -> "task"
      [] OTHER -> "item"

\* The empty args dict.
EmptyArgs == [k \in {} |-> ""]

\* The replies process_confirmation and route_after_confirm accept as a yes
\* and as a no, after lower().strip().
AffirmativeTokens == {"yes", "y", "confirm", "ok", "proceed"}
NegativeTokens == {"no", "n", "cancel", "abort"}

\* (user_confirmation or "").lower().strip() on the replies of the model.
Normalize(reply) ==
    CASE reply = None -> ""
      [] reply = " Yes " -> "yes"
      [] reply = "NO" -> "no"
      [] reply = " Edit" -> "edit"
      [] reply = "  " -> ""
      [] OTHER -> reply

\* -------------------------------------------------------------- the state
VARIABLES
    state,      \* the thread's AgentState (the checkpointed channel values)
    next,       \* the node the thread runs next ("none": no run yet)
    running,    \* a graph.invoke call is in progress
    planner,    \* the locals of _plan_actions_legacy while it loops
    calls,      \* the invocations that reached a backing service, in order
    turn,       \* graph invocations started on the thread
    req,        \* the invocation in progress or last made (bookkeeping)
    tools       \* the MetaTools, AgentTools and Agent objects driven on
                \* their own

vars == <<state, next, running, planner, calls, turn, req, tools>>

\* state.py: create_initial_state / a thread without checkpoint.
InitialState ==
    [ user_message          |-> None,
      actions               |-> <<>>,
      requires_confirmation |-> FALSE,
      execution_mode        |-> "parallel",
      results               |-> EmptyArgs,
      pending_confirmation  |-> <<>>,
      user_confirmation     |-> None,
      confirmation_message  |-> [kind |-> "none", lines |-> <<>>],
      final_response        |-> [kind |-> "none", lines |-> <<>>],
      error                 |-> None ]

\* The locals the planner starts with. mode is PromptConfig's strategy
\* (legacy unless AGENTIC_PAL_PROMPT_MODE says otherwise); response holds the
\* names of the calls of the model's latest response and messages the
\* contents of the ToolMessages appended to messages for them.
PlannerStart ==
    [ iteration |-> 0, actions |-> <<>>, results |-> EmptyArgs,
      requires_confirmation |-> FALSE,
      mode |-> "legacy", response |-> <<>>, messages |-> <<>> ]

\* execute_tools_parallel outside its "with ThreadPoolExecutor" block: no
\* futures, no local results.
NoPool ==
    [ open |-> FALSE, futures |-> <<>>, results |-> [k \in {} |-> ""],
      collected |-> 0 ]

NoRequest ==
    [ kind |-> "none", reply |-> None, suspended |-> FALSE,
      stored_actions |-> <<>>, calls_before |-> 0, visited |-> <<>>,
      raised |-> FALSE, pool |-> NoPool ]

\* ------------------------------------------------------- the plan's shape
IsDestructive(a) == a.tool \in DESTRUCTIVE_TOOLS

\* [a for a in actions if a.get("tool") in DESTRUCTIVE_TOOLS]
DestructiveActions(actions) == SelectSeq(actions, IsDestructive)

\* [a for a in actions if a.get("tool") not in DESTRUCTIVE_TOOLS]
NonDestructiveActions(actions) ==
    SelectSeq(actions, LAMBDA a : ~IsDestructive(a))

\* any(a.get("depends_on") for a in actions)
AnyDependsOn(actions) ==
    \E i \in 1..Len(actions) : actions[i].depends_on # <<>>

\* results.get(action_id, {}) read for its success flag and error.
ResultOf(results, id) ==
    IF id \in DOMAIN results THEN results[id]
    ELSE [success |-> FALSE, error |-> None]

\* --------------------------------------------------------------- the nodes
\* route_execution with the dependency test made before the confirmation
\* test.
route_execution_DependenciesFirst(s) ==
    [s EXCEPT !.execution_mode =
        IF AnyDependsOn(s.actions) THEN "sequential"
        ELSE IF s.requires_confirmation THEN "confirm"
        ELSE "parallel"]

\* route_execution.py: route_execution.
route_execution(s) ==
    [s EXCEPT !.execution_mode =
        IF s.requires_confirmation THEN "confirm"
        ELSE IF AnyDependsOn(s.actions) THEN "sequential"
        ELSE "parallel"]

\* The conditional edge with the parallel mode sent to the gate as well.
_route_after_execution_ParallelToGate(s) ==
    IF s.execution_mode \in {"confirm", "parallel"} THEN "confirm_actions"
    ELSE "execute_sequential"

\* graph_builder.py: the conditional edge after route_execution.
_route_after_execution(s) ==
    IF s.execution_mode = "confirm" THEN "confirm_actions"
    ELSE IF s.execution_mode = "sequential" THEN "execute_sequential"
    ELSE "execute_parallel"

\* confirm_actions.py: one line of the prompt per destructive action.
ConfirmationLine(a) ==
    [ item_type |-> ItemType(a.tool),
      id |-> IF "event_id" \in DOMAIN a.args THEN a.args.event_id
             ELSE IF "task_id" \in DOMAIN a.args THEN a.args.task_id
             ELSE None ]

\* confirm_actions.py: _build_confirmation_message.
_build_confirmation_message(actions) ==
    LET destructive_actions == DestructiveActions(actions)
    IN  IF destructive_actions = <<>>
        THEN [kind |-> "none", lines |-> <<>>]
        ELSE [ kind |-> "prompt",
               lines |-> [i \in 1..Len(destructive_actions) |->
                            ConfirmationLine(destructive_actions[i])] ]

\* confirm_actions.py: confirm_actions.
confirm_actions(s) ==
    LET destructive_actions == DestructiveActions(s.actions)
    IN  IF destructive_actions = <<>>
        THEN [s EXCEPT !.requires_confirmation = FALSE,
                       !.pending_confirmation = <<>>,
                       !.confirmation_message = [kind |-> "none", lines |-> <<>>]]
        ELSE [s EXCEPT !.pending_confirmation = destructive_actions,
                       !.confirmation_message =
                            _build_confirmation_message(s.actions)]

\* confirm_actions.py: state.get("user_confirmation", "").lower() with the
\* key present and None (as create_initial_state sets it): the default of
\* get is not used and None.lower() raises AttributeError.
process_confirmation_raises(s) == s.user_confirmation = None

\* confirm_actions.py: process_confirmation (a node no edge leads to); the
\* state it returns when it does not raise.
process_confirmation(s) ==
    LET user_confirmation == Normalize(s.user_confirmation)
    IN  IF user_confirmation \in AffirmativeTokens
        THEN [s EXCEPT !.requires_confirmation = FALSE,
                       !.pending_confirmation = <<>>]
        ELSE IF user_confirmation \in NegativeTokens
        THEN [s EXCEPT !.actions = NonDestructiveActions(s.actions),
                       !.requires_confirmation = FALSE,
                       !.pending_confirmation = <<>>,
                       !.confirmation_message =
                            [kind |-> "cancelled", lines |-> <<>>]]
        ELSE IF user_confirmation = "edit"
        THEN [s EXCEPT !.confirmation_message =
                            [kind |-> "what_to_change", lines |-> <<>>]]
        ELSE [s EXCEPT !.confirmation_message =
                            [kind |-> "reprompt", lines |-> <<>>]]

\* routers.py: route_after_confirm.
route_after_confirm(s) ==
    LET user_confirmation == Normalize(s.user_confirmation)
    IN  IF s.pending_confirmation = <<>> THEN "execute"
        ELSE IF user_confirmation \in AffirmativeTokens THEN "execute"
        ELSE "synthesize"

\* graph_builder.py: the conditional edge after confirm_actions.
_route_after_confirm(s) ==
    IF route_after_confirm(s) = "execute"
    THEN IF AnyDependsOn(s.actions) THEN "execute_sequential"
         ELSE "execute_parallel"
    ELSE "synthesize_response"

\* synthesize_response.py: the results summary handed to the model.
ResultsSummary(s) ==
    [i \in 1..Len(s.actions) |->
        [ tool    |-> s.actions[i].tool,
          success |-> ResultOf(s.results, s.actions[i].id).success ]]

\* The synthesizer with the test for a plan-level error made first.
synthesize_response_ErrorFirst(s) ==
    IF s.error # None
    THEN [s EXCEPT !.final_response = [kind |-> "error", lines |-> <<>>]]
    ELSE IF s.confirmation_message.kind # "none" /\ s.pending_confirmation # <<>>
    THEN [s EXCEPT !.final_response = s.confirmation_message]
    ELSE IF s.actions = <<>>
    THEN [s EXCEPT !.final_response = [kind |-> "conversational", lines |-> <<>>]]
    ELSE [s EXCEPT !.final_response =
                [kind |-> "summary", lines |-> ResultsSummary(s)]]

\* synthesize_response.py: _synthesize_response_legacy, by first match.
synthesize_response(s) ==
    IF s.confirmation_message.kind # "none" /\ s.pending_confirmation # <<>>
    THEN [s EXCEPT !.final_response = s.confirmation_message]
    ELSE IF s.error # None
    THEN [s EXCEPT !.final_response = [kind |-> "error", lines |-> <<>>]]
    ELSE IF s.actions = <<>>
    THEN [s EXCEPT !.final_response = [kind |-> "conversational", lines |-> <<>>]]
    ELSE [s EXCEPT !.final_response =
                [kind |-> "summary", lines |-> ResultsSummary(s)]]

Range(f) == {f[x] : x \in DOMAIN f}

\* ------------------------------------------------ tools and their invoker
\* tool_definitions.py: TOOL_DEFINITIONS, in the order of the dict (the
\* description, schema and method_name of a definition are left out).
TOOL_DEFINITIONS ==
    ("add_calendar_event" :>
        [ name |-> "add_calendar_event",
          summary |-> "Create a new calendar event with title, time, and optional attendees",
          category |-> "calendar", actions |-> <<"create", "write">>,
          is_write |-> TRUE ])
 @@ ("delete_calendar_event" :>
        [ name |-> "delete_calendar_event",
          summary |-> "Delete a calendar event by its ID",
          category |-> "calendar", actions |-> <<"delete", "write">>,
          is_write |-> TRUE ])
 @@ ("search_calendar_events" :>
        [ name |-> "search_calendar_events",
          summary |-> "Search for events by title keyword",
          category |-> "calendar", actions |-> <<"search", "read">>,
          is_write |-> FALSE ])
 @@ ("list_calendar_events" :>
        [ name |-> "list_calendar_events",
          summary |-> "List upcoming calendar events in a time range",
          category |-> "calendar", actions |-> <<"list", "read">>,
          is_write |-> FALSE ])
 @@ ("update_calendar_event" :>
        [ name |-> "update_calendar_event",
          summary |-> "Update an existing calendar event's details",
          category |-> "calendar", actions |-> <<"update", "write">>,
          is_write |-> TRUE ])
 @@ ("create_task" :>
        [ name |-> "create_task",
          summary |-> "Create a new task/todo item with optional due date",
          category |-> "tasks", actions |-> <<"create", "write">>,
          is_write |-> TRUE ])
 @@ ("list_tasks" :>
        [ name |-> "list_tasks",
          summary |-> "List tasks from a task list",
          category |-> "tasks", actions |-> <<"list", "read">>,
          is_write |-> FALSE ])
 @@ ("mark_task_complete" :>
        [ name |-> "mark_task_complete",
          summary |-> "Mark a task as completed/done",
          category |-> "tasks", actions |-> <<"update", "write">>,
          is_write |-> TRUE ])
 @@ ("mark_task_incomplete" :>
        [ name |-> "mark_task_incomplete",
          summary |-> "Mark a task as incomplete/not done",
          category |-> "tasks", actions |-> <<"update", "write">>,
          is_write |-> TRUE ])
 @@ ("delete_task" :>
        [ name |-> "delete_task",
          summary |-> "Delete a task by its ID",
          category |-> "tasks", actions |-> <<"delete", "write">>,
          is_write |-> TRUE ])
 @@ ("update_task" :>
        [ name |-> "update_task",
          summary |-> "Update a task's title, due date, or notes",
          category |-> "tasks", actions |-> <<"update", "write">>,
          is_write |-> TRUE ])
 @@ ("get_task_lists" :>
        [ name |-> "get_task_lists",
          summary |-> "Get all available task lists",
          category |-> "tasks", actions |-> <<"list", "read">>,
          is_write |-> FALSE ])
 @@ ("read_emails" :>
        [ name |-> "read_emails",
          summary |-> "Read/list recent emails with optional filters",
          category |-> "gmail", actions |-> <<"list", "read">>,
          is_write |-> FALSE ])
 @@ ("get_email_details" :>
        [ name |-> "get_email_details",
          summary |-> "Get full details of a specific email including body",
          category |-> "gmail", actions |-> <<"read">>,
          is_write |-> FALSE ])
 @@ ("summarize_weekly_emails" :>
        [ name |-> "summarize_weekly_emails",
          summary |-> "Get a summary of emails from the past week",
          category |-> "gmail", actions |-> <<"read", "summarize">>,
          is_write |-> FALSE ])
 @@ ("search_emails" :>
        [ name |-> "search_emails",
          summary |-> "Search emails using Gmail search syntax",
          category |-> "gmail", actions |-> <<"search", "read">>,
          is_write |-> FALSE ])
 @@ ("list_unread_emails" :>
        [ name |-> "list_unread_emails",
          summary |-> "List unread emails from inbox",
          category |-> "gmail", actions |-> <<"list", "read">>,
          is_write |-> FALSE ])

\* tool_index.py: TOOL_INDEX, the metadata view of the definitions.
TOOL_INDEX == TOOL_DEFINITIONS

\* tool_definitions.py: BY_CATEGORY, category -> tool names.
BY_CATEGORY ==
    [c \in {TOOL_DEFINITIONS[n].category : n \in DOMAIN TOOL_DEFINITIONS} |->
        {n \in DOMAIN TOOL_DEFINITIONS : TOOL_DEFINITIONS[n].category = c}]

\* tool_definitions.py: BY_ACTION, action -> tool names.
BY_ACTION ==
    [a \in UNION {{TOOL_DEFINITIONS[n].actions[i] :
                        i \in 1..Len(TOOL_DEFINITIONS[n].actions)} :
                    n \in DOMAIN TOOL_DEFINITIONS} |->
        {n \in DOMAIN TOOL_DEFINITIONS :
            \E i \in 1..Len(TOOL_DEFINITIONS[n].actions) :
                TOOL_DEFINITIONS[n].actions[i] = a}]

\* sorted(TOOL_INDEX.keys()): the tool names in the order of str.
SortedToolNames ==
    << "add_calendar_event", "create_task", "delete_calendar_event",
       "delete_task", "get_email_details", "get_task_lists",
       "list_calendar_events", "list_tasks", "list_unread_emails",
       "mark_task_complete", "mark_task_incomplete", "read_emails",
       "search_calendar_events", "search_emails", "summarize_weekly_emails",
       "update_calendar_event", "update_task" >>

\* query.lower() on the keywords of the model.
Lower(query) ==
    CASE query = "LIST" -> "list"
      [] query = "Delete" -> "delete"
      [] OTHER -> query

\* "query_lower in name.lower() or query_lower in meta.summary.lower()" for
\* the keywords of the model, read off the names and summaries above.
ContainsKeyword(query_lower, name) ==
    CASE query_lower = "delete" ->
            name \in {"delete_calendar_event", "delete_task"}
      [] query_lower = "list" ->
            name \in {"list_calendar_events", "list_tasks", "get_task_lists",
                      "read_emails", "list_unread_emails"}
      [] OTHER -> FALSE

\* The names matched when the union of two index lookups is taken where
\* the code intersects them.
discover_tools_Union(categories, actions, query) ==
    LET all_names == DOMAIN TOOL_INDEX
        category_tools ==
            UNION {BY_CATEGORY[c] : c \in Range(categories) \cap DOMAIN BY_CATEGORY}
        action_tools ==
            UNION {BY_ACTION[a] : a \in Range(actions) \cap DOMAIN BY_ACTION}
        by_index ==
            IF categories = <<>> /\ actions = <<>> THEN all_names
            ELSE category_tools \cup action_tools
        matching_names ==
            IF query \notin {None, ""}
            THEN {n \in by_index : ContainsKeyword(Lower(query), n)}
            ELSE by_index
        names == SelectSeq(SortedToolNames, LAMBDA n : n \in matching_names)
    IN  [ tools |-> [i \in 1..Len(names) |->
                        [ name |-> TOOL_INDEX[names[i]].name,
                          summary |-> TOOL_INDEX[names[i]].summary,
                          category |-> TOOL_INDEX[names[i]].category,
                          is_write |-> TOOL_INDEX[names[i]].is_write ]],
          count |-> Len(names) ]

\* tool_index.py: discover_tools.
discover_tools(categories, actions, query) ==
    LET all_names == DOMAIN TOOL_INDEX
        category_tools ==
            UNION {BY_CATEGORY[c] : c \in Range(categories) \cap DOMAIN BY_CATEGORY}
        by_category ==
            IF categories # <<>> THEN all_names \cap category_tools
            ELSE all_names
        action_tools ==
            UNION {BY_ACTION[a] : a \in Range(actions) \cap DOMAIN BY_ACTION}
        by_action ==
            IF actions # <<>> THEN by_category \cap action_tools
            ELSE by_category
        matching_names ==
            IF query \notin {None, ""}
            THEN {n \in by_action : ContainsKeyword(Lower(query), n)}
            ELSE by_action
        names == SelectSeq(SortedToolNames, LAMBDA n : n \in matching_names)
    IN  [ tools |-> [i \in 1..Len(names) |->
                        [ name |-> TOOL_INDEX[names[i]].name,
                          summary |-> TOOL_INDEX[names[i]].summary,
                          category |-> TOOL_INDEX[names[i]].category,
                          is_write |-> TOOL_INDEX[names[i]].is_write ]],
          count |-> Len(names) ]

\* Every write-classified tool taken for one that needs confirmation.
WriteDeleteTools_EveryWrite ==
    {n \in DOMAIN TOOL_INDEX : TOOL_INDEX[n].is_write}

\* meta_tools.py: "meta and meta.is_write and 'delete' in meta.actions".
WriteDeleteTools ==
    {n \in DOMAIN TOOL_INDEX :
        /\ TOOL_INDEX[n].is_write
        /\ \E i \in 1..Len(TOOL_INDEX[n].actions) :
              TOOL_INDEX[n].actions[i] = "delete"}

\* registry.py: AgentTools.execute_tool never raises; ok is the outcome of
\* validation and of the bound service method.
execute_tool(ok) ==
    [success |-> ok, error |-> IF ok THEN None ELSE "tool_error"]

\* meta_tools.py: MetaTools.invoke_tool; executed tells whether the call
\* went on to the registry.
invoke_tool(tool, ok) ==
    IF tool \in WriteDeleteTools
    THEN [result |-> [success |-> FALSE, error |-> "pending_confirmation"],
          executed |-> FALSE]
    ELSE [result |-> execute_tool(ok), executed |-> TRUE]

\* The invocation in progress answers a suspended plan with a yes and that
\* plan is still the thread's plan.
ConfirmedByUser ==
    /\ req.kind = "confirm"
    /\ req.suspended
    /\ Normalize(req.reply) \in AffirmativeTokens
    /\ state.actions = req.stored_actions

\* The name "a<n>" of the action id n.
IdName(n) == "a" \o ToString(n)

\* One entry of the log of tool_executor invocations: the id of the action
\* it was made for, the tool, the arguments passed, the node that made the
\* call, how the invocation ended and whether the user had confirmed the
\* plan by then.
Call(id, tool, args, node, outcome) ==
    [id |-> id, tool |-> tool, args |-> args, node |-> node,
     outcome |-> outcome, confirmed |-> ConfirmedByUser]

\* The outcome of a registry call that validated and ran (ok) or not.
OutcomeOf(ok) == IF ok THEN "ok" ELSE "fail"

\* ----------------------------------------------------------- the planner
\* What the language model may propose in a response.
ModelCalls ==
    { [name |-> "discover_tools", tool |-> None, args |-> EmptyArgs],
      [name |-> "get_tool_schema", tool |-> None, args |-> EmptyArgs],
      [name |-> "summon_tool", tool |-> None, args |-> EmptyArgs],
      [name |-> "invoke_tool", tool |-> "list_tasks", args |-> EmptyArgs],
      [name |-> "invoke_tool", tool |-> "delete_calendar_event",
       args |-> [event_id |-> "e1"]],
      [name |-> "invoke_tool", tool |-> "delete_task",
       args |-> [task_id |-> "t1"]] }

\* The responses with tool calls: one to MaxToolCalls calls.
ModelResponses ==
    UNION { [1..n -> ModelCalls] : n \in 1..MaxToolCalls }

InvokeCount(tcs) ==
    Cardinality({i \in 1..Len(tcs) : tcs[i].name = "invoke_tool"})

\* The body of the planner's loop without the test for destructive tools:
\* every invoke_tool call is executed through the registry at once.
PlanToolCall_NoDestructiveTest(acc, tc, ok) ==
    LET p == acc.p
        id == Len(p.actions) + 1
    IN  IF tc.name # "invoke_tool" THEN acc
        ELSE [ p |-> [p EXCEPT
                        !.actions = Append(p.actions,
                            [id |-> id, tool |-> tc.tool, args |-> tc.args,
                             depends_on |-> <<>>,
                             pending_confirmation |-> FALSE]),
                        !.results = (id :> execute_tool(ok)) @@ p.results],
               log |-> Append(acc.log,
                    Call(id, tc.tool, tc.args, "plan_actions", OutcomeOf(ok))) ]

\* The body of the planner's loop with every action recorded as "a1".
PlanToolCall_SameId(acc, tc, ok) ==
    LET p == acc.p
        id == 1
    IN  IF tc.name # "invoke_tool" THEN acc
        ELSE IF tc.tool \in DESTRUCTIVE_TOOLS
        THEN [acc EXCEPT
                !.p.requires_confirmation = TRUE,
                !.p.actions = Append(p.actions,
                    [id |-> id, tool |-> tc.tool, args |-> tc.args,
                     depends_on |-> <<>>, pending_confirmation |-> TRUE])]
        ELSE LET r == invoke_tool(tc.tool, ok)
             IN  [ p |-> [p EXCEPT
                        !.actions = Append(p.actions,
                            [id |-> id, tool |-> tc.tool, args |-> tc.args,
                             depends_on |-> <<>>,
                             pending_confirmation |-> FALSE]),
                        !.results = (id :> r.result) @@ p.results],
                   log |-> IF r.executed
                           THEN Append(acc.log,
                                    Call(id, tc.tool, tc.args, "plan_actions",
                                         OutcomeOf(ok)))
                           ELSE acc.log ]

\* The names the planner's loop knows.
MetaToolNames == {"discover_tools", "get_tool_schema", "invoke_tool"}

\* The content of the ToolMessage for a call to an unknown name:
\* {"error": f"Unknown meta-tool: {tool_name}"}.
UnknownMetaTool(tool_name) == "error: Unknown meta-tool: " \o tool_name

\* messages.append(ToolMessage(content=json.dumps(result), ...)); the
\* content is named by the kind of result it dumps.
AppendToolMessage(acc, content) ==
    [acc EXCEPT !.p.messages = Append(@, content)]

\* The loop body with every action after the first recorded as depending on
\* the action before it.
PlanToolCall_DependsOnPrevious(acc, tc, ok) ==
    LET p == acc.p
        id == Len(p.actions) + 1
        depends_on == IF id = 1 THEN <<>> ELSE <<id - 1>>
    IN  IF tc.name = "discover_tools" THEN AppendToolMessage(acc, "tools")
        ELSE IF tc.name = "get_tool_schema"
        THEN AppendToolMessage(acc, "schema")
        ELSE IF tc.name # "invoke_tool"
        THEN AppendToolMessage(acc, UnknownMetaTool(tc.name))
        ELSE IF tc.tool \in DESTRUCTIVE_TOOLS
        THEN AppendToolMessage(
                [acc EXCEPT
                    !.p.requires_confirmation = TRUE,
                    !.p.actions = Append(p.actions,
                        [id |-> id, tool |-> tc.tool, args |-> tc.args,
                         depends_on |-> depends_on,
                         pending_confirmation |-> TRUE])],
                "pending_confirmation")
        ELSE LET r == invoke_tool(tc.tool, ok)
             IN  AppendToolMessage(
                    [ p |-> [p EXCEPT
                            !.actions = Append(p.actions,
                                [id |-> id, tool |-> tc.tool, args |-> tc.args,
                                 depends_on |-> depends_on,
                                 pending_confirmation |-> FALSE]),
                            !.results = (id :> r.result) @@ p.results],
                      log |-> IF r.executed
                              THEN Append(acc.log,
                                    Call(id, tc.tool, tc.args, "plan_actions",
                                         OutcomeOf(ok)))
                              ELSE acc.log ],
                    "result")

\* plan_actions.py: the body of "for tc in tool_calls" for one call, on the
\* planner's locals p and the invocation log.
PlanToolCall(acc, tc, ok) ==
    LET p == acc.p
        id == Len(p.actions) + 1
    IN  IF tc.name = "discover_tools" THEN AppendToolMessage(acc, "tools")
        ELSE IF tc.name = "get_tool_schema"
        THEN AppendToolMessage(acc, "schema")
        ELSE IF tc.name # "invoke_tool"
        THEN AppendToolMessage(acc, UnknownMetaTool(tc.name))
        ELSE IF tc.tool \in DESTRUCTIVE_TOOLS
        THEN AppendToolMessage(
                [acc EXCEPT
                    !.p.requires_confirmation = TRUE,
                    !.p.actions = Append(p.actions,
                        [id |-> id, tool |-> tc.tool, args |-> tc.args,
                         depends_on |-> <<>>, pending_confirmation |-> TRUE])],
                "pending_confirmation")
        ELSE LET r == invoke_tool(tc.tool, ok)
             IN  AppendToolMessage(
                    [ p |-> [p EXCEPT
                            !.actions = Append(p.actions,
                                [id |-> id, tool |-> tc.tool, args |-> tc.args,
                                 depends_on |-> <<>>,
                                 pending_confirmation |-> FALSE]),
                            !.results = (id :> r.result) @@ p.results],
                      log |-> IF r.executed
                              THEN Append(acc.log,
                                    Call(id, tc.tool, tc.args, "plan_actions",
                                         OutcomeOf(ok)))
                              ELSE acc.log ],
                    "result")

\* messages.append(response): the planner's locals once the response with
\* the tool calls tcs is taken up.
TakeResponse(tcs) ==
    [planner EXCEPT !.response = [i \in 1..Len(tcs) |-> tcs[i].name],
                    !.messages = <<>>]

RECURSIVE PlanToolCalls(_, _, _, _)
PlanToolCalls(acc, tcs, oks, i) ==
    IF i > Len(tcs) THEN acc
    ELSE PlanToolCalls(PlanToolCall(acc, tcs[i], oks[i]), tcs, oks, i + 1)

Visit(node) == [req EXCEPT !.visited = Append(req.visited, node)]

Suspended == ~running /\ next = "confirm_actions"

\* ------------------------------------------------------ the entry points
\* graph.invoke(input, {"configurable": {"thread_id": ...}}) with an input
\* that is not None: the input is written over the thread's checkpointed
\* values and the run starts at the entry point, whatever node the thread
\* was interrupted before. Input keys that are no field of AgentState
\* (actions_confirmed) are not channels and are dropped.
Start(kind, reply) ==
    /\ ~running
    /\ turn < MaxTurns
    /\ running' = TRUE
    /\ next' = "classify_intent"
    /\ turn' = turn + 1
    /\ planner' = PlannerStart
    /\ req' = [ kind |-> kind, reply |-> reply, suspended |-> Suspended,
                stored_actions |-> state.actions,
                calls_before |-> Len(calls), visited |-> <<>>,
                raised |-> FALSE, pool |-> NoPool ]
    /\ UNCHANGED <<calls, tools>>

\* main.py REPL / api/main.py chat, chat_stream: a user message.
Chat(m) ==
    /\ Start("chat", None)
    /\ state' = [state EXCEPT !.user_message = m]

\* api/main.py confirm_action: a confirmation reply for the thread.
Confirm(r) ==
    /\ Start("confirm", r)
    /\ state' = [state EXCEPT !.user_confirmation = r]

\* api/main.py cancel_action.
Cancel ==
    /\ Start("cancel", "no")
    /\ state' = [state EXCEPT !.user_confirmation = "no"]

\* --------------------------------------------------------- the graph run
\* graph_builder.py: the entry node; its body is not in the sources and the
\* state is carried through it unchanged.
ClassifyIntent ==
    /\ running /\ next = "classify_intent"
    /\ next' = "plan_actions"
    /\ req' = Visit("classify_intent")
    /\ UNCHANGED <<state, running, planner, calls, turn, tools>>

\* The planner's loop with no cap on its iterations ("while True").
PlanIterate_NoCap ==
    /\ running /\ next = "plan_actions"
    /\ planner.mode = "legacy"
    /\ state.user_message # None
    /\ \E tcs \in ModelResponses : \E oks \in [1..Len(tcs) -> BOOLEAN] :
          /\ Len(planner.actions) + InvokeCount(tcs) <= MaxActions
          /\ \A i \in 1..Len(tcs) :
                (tcs[i].name # "invoke_tool" \/ tcs[i].tool \in DESTRUCTIVE_TOOLS)
                    => oks[i]
          /\ LET acc == PlanToolCalls([p |-> TakeResponse(tcs), log |-> calls],
                                      tcs, oks, 1)
             IN  /\ planner' = [acc.p EXCEPT
                                    !.iteration = planner.iteration + 1,
                                    !.response = <<>>, !.messages = <<>>]
                 /\ calls' = acc.log
    /\ UNCHANGED <<state, next, running, turn, req, tools>>

\* plan_actions.py: one iteration of the loop: one call of the model, which
\* proposes tool calls. With kept, the response and the ToolMessages the
\* iteration appends to messages stay in the planner's locals; without,
\* the messages list is left out of the view.
PlanLoopIteration(kept) ==
    /\ running /\ next = "plan_actions"
    /\ planner.mode = "legacy"
    /\ state.user_message # None
    /\ planner.iteration < max_iterations
    /\ \E tcs \in ModelResponses : \E oks \in [1..Len(tcs) -> BOOLEAN] :
          /\ Len(planner.actions) + InvokeCount(tcs) <= MaxActions
          /\ \A i \in 1..Len(tcs) :
                (tcs[i].name # "invoke_tool" \/ tcs[i].tool \in DESTRUCTIVE_TOOLS)
                    => oks[i]
          /\ LET acc == PlanToolCalls([p |-> TakeResponse(tcs), log |-> calls],
                                      tcs, oks, 1)
             IN  /\ planner' = [acc.p EXCEPT
                                    !.iteration = planner.iteration + 1,
                                    !.response = IF kept THEN @ ELSE <<>>,
                                    !.messages = IF kept THEN @ ELSE <<>>]
                 /\ calls' = acc.log
    /\ UNCHANGED <<state, next, running, turn, req, tools>>

\* The iteration as the graph's runs see it.
PlanIterate == PlanLoopIteration(FALSE)

\* The iteration with its messages.
PlanIterateMessages == PlanLoopIteration(TRUE)

\* The node returning its results merged into the ones the thread holds.
PlanFinish_KeepsResults ==
    /\ running /\ next = "plan_actions"
    /\ planner.mode = "legacy"
    /\ state.user_message # None
    /\ state' = [state EXCEPT
                    !.actions = planner.actions,
                    !.results = planner.results @@ state.results,
                    !.requires_confirmation = planner.requires_confirmation]
    /\ planner' = PlannerStart
    /\ next' = "route_execution"
    /\ req' = Visit("plan_actions")
    /\ UNCHANGED <<running, calls, turn, tools>>

\* plan_actions.py: the loop ends (the model proposes no call, or the cap on
\* iterations is hit) and the node returns the plan.
PlanFinish ==
    /\ running /\ next = "plan_actions"
    /\ planner.mode = "legacy"
    /\ state.user_message # None
    /\ state' = [state EXCEPT
                    !.actions = planner.actions,
                    !.results = planner.results,
                    !.requires_confirmation = planner.requires_confirmation]
    /\ planner' = PlannerStart
    /\ next' = "route_execution"
    /\ req' = Visit("plan_actions")
    /\ UNCHANGED <<running, calls, turn, tools>>

\* plan_actions.py: state["user_message"] on a thread without a message, or
\* a model call that throws: the node raises and graph.invoke propagates it.
PlanRaises ==
    /\ running /\ next = "plan_actions"
    /\ \/ state.user_message = None
       \/ planner.mode = "legacy" /\ planner.iteration < max_iterations
    /\ running' = FALSE
    /\ planner' = PlannerStart
    /\ req' = [Visit("plan_actions") EXCEPT !.raised = TRUE]
    /\ UNCHANGED <<state, next, calls, turn, tools>>

\* plan_actions.py: the body of "for i, call in enumerate(planned_calls)" of
\* _plan_actions_dspy for one call: the results of discover_tools and
\* get_tool_schema are dropped, a call to another name matches no branch.
PlanCallDspy(acc, call, ok) ==
    LET p == acc.p
        id == Len(p.actions) + 1
    IN  IF call.name # "invoke_tool" THEN acc
        ELSE IF call.tool \in DESTRUCTIVE_TOOLS
        THEN [acc EXCEPT
                !.p.requires_confirmation = TRUE,
                !.p.actions = Append(p.actions,
                    [id |-> id, tool |-> call.tool, args |-> call.args,
                     depends_on |-> <<>>, pending_confirmation |-> TRUE])]
        ELSE LET r == invoke_tool(call.tool, ok)
             IN  [ p |-> [p EXCEPT
                        !.actions = Append(p.actions,
                            [id |-> id, tool |-> call.tool, args |-> call.args,
                             depends_on |-> <<>>,
                             pending_confirmation |-> FALSE]),
                        !.results = (id :> r.result) @@ p.results],
                   log |-> IF r.executed
                           THEN Append(acc.log,
                                    Call(id, call.tool, call.args,
                                         "plan_actions", OutcomeOf(ok)))
                           ELSE acc.log ]

RECURSIVE PlanCallsDspy(_, _, _, _)
PlanCallsDspy(acc, planned_calls, oks, i) ==
    IF i > Len(planned_calls) THEN acc
    ELSE PlanCallsDspy(PlanCallDspy(acc, planned_calls[i], oks[i]),
                       planned_calls, oks, i + 1)

\* The tool_calls JSON of the DSPy module, parsed: zero to MaxActions calls.
DspyResponses ==
    UNION { [1..n -> ModelCalls] : n \in 0..MaxActions }

\* plan_actions.py: _plan_actions_dspy, one call of the module and one pass
\* over its planned calls. planned_calls are the calls the pass completed;
\* with raised, an exception ended the try block after them (the module's
\* call threw, or a later call's arguments did) and the except branch
\* returns an error with an empty plan. The planner's locals are kept as
\* they were at the return.
PlanActionsDspy ==
    /\ running /\ next = "plan_actions"
    /\ planner.mode = "dspy"
    /\ state.user_message # None
    /\ \E planned_calls \in DspyResponses :
       \E oks \in [1..Len(planned_calls) -> BOOLEAN] :
       \E raised \in BOOLEAN :
          /\ \A i \in 1..Len(planned_calls) :
                (planned_calls[i].name # "invoke_tool"
                    \/ planned_calls[i].tool \in DESTRUCTIVE_TOOLS) => oks[i]
          /\ LET acc == PlanCallsDspy([p |-> TakeResponse(planned_calls),
                                       log |-> calls], planned_calls, oks, 1)
             IN  /\ planner' = acc.p
                 /\ calls' = acc.log
                 /\ state' =
                        IF raised
                        THEN [state EXCEPT
                                !.error = "DSPy planning failed",
                                !.actions = <<>>,
                                !.results = EmptyArgs]
                        ELSE [state EXCEPT
                                !.actions = acc.p.actions,
                                !.results = acc.p.results,
                                !.requires_confirmation =
                                    acc.p.requires_confirmation]
    /\ next' = "route_execution"
    /\ req' = Visit("plan_actions")
    /\ UNCHANGED <<running, turn, tools>>

\* route_execution.py and the conditional edge after it.
RouteExecution ==
    /\ running /\ next = "route_execution"
    /\ state' = route_execution(state)
    /\ next' = _route_after_execution(state')
    /\ req' = Visit("route_execution")
    /\ UNCHANGED <<running, planner, calls, turn, tools>>

\* The graph compiled without interrupt_before: the run goes through
\* confirm_actions and on.
Interrupt_NotConfigured ==
    /\ running /\ next = "confirm_actions"
    /\ req.kind # "resume"
    /\ state' = confirm_actions(state)
    /\ next' = _route_after_confirm(state')
    /\ req' = Visit("confirm_actions")
    /\ UNCHANGED <<running, planner, calls, turn, tools>>

\* graph_builder.py: interrupt_before=["confirm_actions"]; a run started with
\* an input stops with the checkpoint saved and graph.invoke returns the
\* state values.
Interrupt ==
    /\ running /\ next = "confirm_actions"
    /\ req.kind # "resume"
    /\ running' = FALSE
    /\ UNCHANGED <<state, next, planner, calls, turn, req, tools>>

\* confirm_actions.py and the conditional edge after it, on the run that
\* continues an interrupted thread.
ConfirmActions ==
    /\ running /\ next = "confirm_actions"
    /\ req.kind = "resume"
    /\ state' = confirm_actions(state)
    /\ next' = _route_after_confirm(state')
    /\ req' = Visit("confirm_actions")
    /\ UNCHANGED <<running, planner, calls, turn, tools>>

\* What an invocation made by an executor can end as: the registry returns
\* a success ("ok") or a failure Result ("fail"), tool_executor raises, or
\* it completes only after future.result(timeout=30) gave up ("timeout").
Outcomes == {"ok", "fail", "raise", "timeout"}

\* An invocation that never completes.
Hang == "hang"

\* The invocations the node made during the graph invocation in progress.
CallsOf(node) ==
    {c \in (req.calls_before + 1)..Len(calls) : calls[c].node = node}

\* The run is inside the parallel executor, joining a worker that never
\* ends.
Blocked ==
    \E c \in CallsOf("execute_parallel") : calls[c].outcome = Hang

\* execute_tools.py: the Result recorded for an outcome.
ParallelResult(outcome) ==
    CASE outcome = "ok" -> execute_tool(TRUE)
      [] outcome = "fail" -> execute_tool(FALSE)
      [] outcome = "timeout" ->
            [success |-> FALSE, error |-> "Tool execution timed out"]
      [] OTHER -> [success |-> FALSE, error |-> "exception"]

\* The collecting loop left at the first future that raises: the futures
\* behind it are not read.
RECURSIVE CollectResults_StopAtRaise(_, _, _, _)
CollectResults_StopAtRaise(results, actions, outs, i) ==
    IF i > Len(actions) THEN results
    ELSE IF outs[i] = "raise"
    THEN (actions[i].id :> ParallelResult(outs[i])) @@ results
    ELSE CollectResults_StopAtRaise(
            (actions[i].id :> ParallelResult(outs[i])) @@ results,
            actions, outs, i + 1)

\* The collecting loop on an empty dict in place of the copy of the
\* state's results.
CollectResults_PlanOnly(results, actions, outs, i) ==
    [id \in {actions[j].id : j \in 1..Len(actions)} |->
        ParallelResult(outs[CHOOSE j \in 1..Len(actions) : actions[j].id = id])]

\* execute_tools.py: "for action_id, future in futures.items()", the
\* futures read in the order of submission.
RECURSIVE CollectResults(_, _, _, _)
CollectResults(results, actions, outs, i) ==
    IF i > Len(actions) THEN results
    ELSE CollectResults((actions[i].id :> ParallelResult(outs[i])) @@ results,
                        actions, outs, i + 1)

\* execute_tools.py: execute_tools_parallel; every action of the plan is
\* submitted to tool_executor and every invocation completes.
ExecuteParallel ==
    /\ running /\ next = "execute_parallel"
    /\ ~Blocked
    /\ \E outs \in [1..Len(state.actions) -> Outcomes] :
          /\ state' = [state EXCEPT !.results =
                          CollectResults(state.results, state.actions, outs, 1)]
          /\ calls' = calls \o
                [i \in 1..Len(state.actions) |->
                    Call(state.actions[i].id, state.actions[i].tool,
                         state.actions[i].args, "execute_parallel", outs[i])]
    /\ next' = "synthesize_response"
    /\ req' = Visit("execute_parallel")
    /\ UNCHANGED <<running, planner, turn, tools>>

\* execute_tools.py: execute_tools_parallel when an invocation never
\* completes: the futures are read (the one that hangs times out), then
\* leaving "with ThreadPoolExecutor(...)" calls shutdown(wait=True), which
\* joins the worker that never ends. The node does not return and the
\* thread's state is not written.
ExecuteParallelBlocks ==
    /\ running /\ next = "execute_parallel"
    /\ ~Blocked
    /\ \E outs \in [1..Len(state.actions) -> Outcomes \cup {Hang}] :
          /\ \E i \in 1..Len(outs) : outs[i] = Hang
          /\ calls' = calls \o
                [i \in 1..Len(state.actions) |->
                    Call(state.actions[i].id, state.actions[i].tool,
                         state.actions[i].args, "execute_parallel", outs[i])]
    /\ UNCHANGED <<state, next, running, planner, turn, req, tools>>

\* ---- execute_tools_parallel step by step: the collecting thread and the
\* worker threads of the pool. req.pool holds the futures in the order of
\* their submission ("running" until the worker's call of tool_executor
\* ends), the local dict results of the collecting thread and the number
\* of futures it has read.

\* execute_tools.py: "results = state.get('results', {}).copy()" and the
\* loop of executor.submit: one future per action (max_workers=5).
ParallelSubmit ==
    /\ running /\ next = "execute_parallel"
    /\ ~req.pool.open
    /\ state.actions # <<>>
    /\ req' = [req EXCEPT !.pool =
                    [ open |-> TRUE,
                      futures |-> [i \in 1..Len(state.actions) |-> "running"],
                      results |-> state.results,
                      collected |-> 0 ]]
    /\ UNCHANGED <<state, next, running, planner, calls, turn, tools>>

\* A worker that stores the Result in the thread's state itself.
WorkerCompletes_WritesState ==
    /\ running /\ req.pool.open
    /\ \E i \in 1..Len(req.pool.futures) :
       \E outcome \in {"ok", "fail", "raise"} :
          /\ req.pool.futures[i] = "running"
          /\ req' = [req EXCEPT !.pool.futures[i] = outcome]
          /\ calls' = Append(calls,
                            Call(state.actions[i].id, state.actions[i].tool,
                                 state.actions[i].args, "execute_parallel",
                                 outcome))
          /\ state' = [state EXCEPT !.results =
                            (state.actions[i].id :> ParallelResult(outcome))
                                @@ state.results]
    /\ UNCHANGED <<next, running, planner, turn, tools>>

\* A worker thread: tool_executor(action["tool"], action.get("args", {}))
\* returns or raises, which settles the future. The worker is handed the
\* tool name and the args and nothing of the state. A worker whose call
\* never ends takes no step.
WorkerCompletes ==
    /\ running /\ req.pool.open
    /\ \E i \in 1..Len(req.pool.futures) :
       \E outcome \in {"ok", "fail", "raise"} :
          /\ req.pool.futures[i] = "running"
          /\ req' = [req EXCEPT !.pool.futures[i] = outcome]
          /\ calls' = Append(calls,
                            Call(state.actions[i].id, state.actions[i].tool,
                                 state.actions[i].args, "execute_parallel",
                                 outcome))
    /\ UNCHANGED <<state, next, running, planner, turn, tools>>

\* The collecting thread: future.result(timeout=30) on the next future in
\* the order of submission. A settled future gives its Result or its
\* exception; one still running after 30 seconds gives the timeout Result.
CollectorTakes ==
    /\ running /\ req.pool.open
    /\ req.pool.collected < Len(req.pool.futures)
    /\ LET i == req.pool.collected + 1
           outcome == IF req.pool.futures[i] = "running" THEN "timeout"
                      ELSE req.pool.futures[i]
       IN  req' = [req EXCEPT
                    !.pool.results = (state.actions[i].id :>
                                        ParallelResult(outcome)) @@ @,
                    !.pool.collected = i]
    /\ UNCHANGED <<state, next, running, planner, calls, turn, tools>>

\* Leaving the with block (shutdown(wait=True) joins every worker) and
\* "return {**state, 'results': results}".
ParallelReturns ==
    /\ running /\ req.pool.open
    /\ req.pool.collected = Len(req.pool.futures)
    /\ \A i \in 1..Len(req.pool.futures) : req.pool.futures[i] # "running"
    /\ state' = [state EXCEPT !.results = req.pool.results]
    /\ next' = "synthesize_response"
    /\ req' = [Visit("execute_parallel") EXCEPT !.pool.open = FALSE]
    /\ UNCHANGED <<running, planner, calls, turn, tools>>

\* execute_tools.py: _topological_sort, "dependents": the ids of the
\* actions that name d in depends_on, in plan order, once per mention.
RECURSIVE Dependents(_, _, _)
Dependents(actions, d, i) ==
    IF i > Len(actions) THEN <<>>
    ELSE [k \in 1..Len(SelectSeq(actions[i].depends_on, LAMBDA x : x = d)) |->
              actions[i].id]
         \o Dependents(actions, d, i + 1)

\* action_map[id].
ActionById(actions, id) ==
    actions[CHOOSE i \in 1..Len(actions) : actions[i].id = id]

\* "for dependent in dependents[current]": in_degree is decremented and a
\* dependent that reaches 0 is appended to the queue.
RECURSIVE Release(_, _, _)
Release(acc, deps, k) ==
    IF k > Len(deps) THEN acc
    ELSE LET deg == acc.in_degree[deps[k]] - 1
         IN  Release([ queue |-> IF deg = 0 THEN Append(acc.queue, deps[k])
                                 ELSE acc.queue,
                       in_degree |-> [acc.in_degree EXCEPT ![deps[k]] = deg] ],
                     deps, k + 1)

\* "while queue": Kahn's algorithm.
RECURSIVE Kahn(_, _, _, _)
Kahn(actions, queue, in_degree, sorted_actions) ==
    IF queue = <<>> THEN sorted_actions
    ELSE LET current == Head(queue)
             acc == Release([queue |-> Tail(queue), in_degree |-> in_degree],
                            Dependents(actions, current, 1), 1)
         IN  Kahn(actions, acc.queue, acc.in_degree,
                  Append(sorted_actions, ActionById(actions, current)))

\* The plan run in the order it is listed, with no sort.
_topological_sort_PlanOrder(actions) == actions

\* Kahn's algorithm with the ready list used as a stack (queue.pop()).
RECURSIVE KahnStack(_, _, _, _)
KahnStack(actions, queue, in_degree, sorted_actions) ==
    IF queue = <<>> THEN sorted_actions
    ELSE LET current == queue[Len(queue)]
             acc == Release([queue |-> SubSeq(queue, 1, Len(queue) - 1),
                             in_degree |-> in_degree],
                            Dependents(actions, current, 1), 1)
         IN  KahnStack(actions, acc.queue, acc.in_degree,
                       Append(sorted_actions, ActionById(actions, current)))

\* The sort with the ready actions taken last in, first out.
_topological_sort_Stack(actions) ==
    LET ids == {actions[i].id : i \in 1..Len(actions)}
        in_degree == [id \in ids |-> Len(ActionById(actions, id).depends_on)]
        zero == SelectSeq(actions, LAMBDA a : in_degree[a.id] = 0)
        queue == [i \in 1..Len(zero) |-> zero[i].id]
    IN  KahnStack(actions, queue, in_degree, <<>>)

\* execute_tools.py: _topological_sort.
_topological_sort(actions) ==
    LET ids == {actions[i].id : i \in 1..Len(actions)}
        in_degree == [id \in ids |-> Len(ActionById(actions, id).depends_on)]
        zero == SelectSeq(actions, LAMBDA a : in_degree[a.id] = 0)
        queue == [i \in 1..Len(zero) |-> zero[i].id]
    IN  Kahn(actions, queue, in_degree, <<>>)

\* results[value].get("data", results[value]): the payload an argument
\* that names the action id n is replaced by.
Payload(results, n) ==
    IF "data" \in DOMAIN results[n] THEN "data:" \o IdName(n)
    ELSE "result:" \o IdName(n)

\* Dependency resolution that passes the stored args on as they are.
_inject_dependencies_NoInjection(action, results) == action

\* execute_tools.py: _inject_dependencies. Every argument value is a string,
\* so the first test of the loop decides and the from_result branch behind
\* it is never taken.
_inject_dependencies(action, results) ==
    [action EXCEPT !.args =
        [key \in DOMAIN action.args |->
            IF \E n \in DOMAIN results : action.args[key] = IdName(n)
            THEN Payload(results,
                    CHOOSE n \in DOMAIN results : action.args[key] = IdName(n))
            ELSE action.args[key]]]

\* What a direct call of tool_executor can end as.
SequentialOutcomes == {"ok", "fail", "raise"}

\* execute_tools.py: the Result the sequential loop records for an outcome.
SequentialResult(outcome) ==
    CASE outcome = "ok" -> execute_tool(TRUE)
      [] outcome = "fail" -> execute_tool(FALSE)
      [] OTHER -> [success |-> FALSE, error |-> "exception"]

\* The sequential loop left at the first invocation that raises or returns
\* a failure.
RECURSIVE RunSequential_StopAtFailure(_, _, _, _)
RunSequential_StopAtFailure(acc, sorted_actions, outs, i) ==
    IF i > Len(sorted_actions) THEN acc
    ELSE LET action == sorted_actions[i]
             resolved_action == _inject_dependencies(action, acc.results)
             done == [ results |-> (action.id :> SequentialResult(outs[i]))
                                        @@ acc.results,
                       log |-> Append(acc.log,
                                 Call(action.id, resolved_action.tool,
                                      resolved_action.args,
                                      "execute_sequential", outs[i])) ]
         IN  IF outs[i] # "ok" THEN done
             ELSE RunSequential_StopAtFailure(done, sorted_actions, outs, i + 1)

\* execute_tools.py: "for action in sorted_actions" on the results and the
\* invocation log.
RECURSIVE RunSequential(_, _, _, _)
RunSequential(acc, sorted_actions, outs, i) ==
    IF i > Len(sorted_actions) THEN acc
    ELSE LET action == sorted_actions[i]
             resolved_action == _inject_dependencies(action, acc.results)
         IN  RunSequential(
                [ results |-> (action.id :> SequentialResult(outs[i]))
                                    @@ acc.results,
                  log |-> Append(acc.log,
                            Call(action.id, resolved_action.tool,
                                 resolved_action.args, "execute_sequential",
                                 outs[i])) ],
                sorted_actions, outs, i + 1)

\* execute_tools.py: execute_tools_sequential.
ExecuteSequential ==
    /\ running /\ next = "execute_sequential"
    /\ LET sorted_actions == _topological_sort(state.actions)
       IN  \E outs \in [1..Len(sorted_actions) -> SequentialOutcomes] :
              LET acc == RunSequential([results |-> state.results, log |-> calls],
                                       sorted_actions, outs, 1)
              IN  /\ state' = [state EXCEPT !.results = acc.results]
                  /\ calls' = acc.log
    /\ next' = "synthesize_response"
    /\ req' = Visit("execute_sequential")
    /\ UNCHANGED <<running, planner, turn, tools>>

\* The synthesizer with an edge back to the router instead of END.
SynthesizeResponse_NotTerminal ==
    /\ running /\ next = "synthesize_response"
    /\ state' = synthesize_response(state)
    /\ next' = "route_execution"
    /\ req' = Visit("synthesize_response")
    /\ UNCHANGED <<running, planner, calls, turn, tools>>

\* synthesize_response.py, then END: graph.invoke returns.
SynthesizeResponse ==
    /\ running /\ next = "synthesize_response"
    /\ state' = synthesize_response(state)
    /\ next' = "END"
    /\ running' = FALSE
    /\ req' = Visit("synthesize_response")
    /\ UNCHANGED <<planner, calls, turn, tools>>

\* synthesize_response.py: llm.invoke throws in the conversational or the
\* summary branch of _synthesize_response_legacy, which has no handler: the
\* node raises and graph.invoke propagates it.
SynthesizeRaises ==
    /\ running /\ next = "synthesize_response"
    /\ ~(state.confirmation_message.kind # "none"
            /\ state.pending_confirmation # <<>>)
    /\ state.error = None
    /\ running' = FALSE
    /\ req' = [Visit("synthesize_response") EXCEPT !.raised = TRUE]
    /\ UNCHANGED <<state, next, planner, calls, turn, tools>>

\* ------------------------------------------- the tool objects on their own
\* MetaTools._pending_confirmation = None.
NoStash == [tool_name |-> None, parameters |-> EmptyArgs]

\* What a call on the objects returns: a Result of the registry, the
\* pending_confirmation marker, the answer of discover_tools or the error
\* object of execute_pending.
Ret(kind, success, error, tool_name, parameters, found) ==
    [ kind |-> kind, success |-> success, error |-> error,
      tool_name |-> tool_name, parameters |-> parameters, found |-> found ]

NoReturn == Ret("none", FALSE, None, None, EmptyArgs, <<>>)

\* agent.py: Agent.__init__. conversation_history keeps the role of each
\* message and, of a HumanMessage, its content, of an AI message with tool
\* calls and of a ToolMessage, the tool names. iteration is the loop
\* variable of process_message and processing tells that a call of it is in
\* progress; messages counts the calls made and executed logs, for each
\* tool call the loop executed, the user inputs received until then.
\* session_context, which process_message only writes, is left out.
AgentStart ==
    [ conversation_history |-> <<>>, pending_confirmation |-> None,
      iteration |-> 0, processing |-> FALSE, returned |-> None,
      messages |-> 0, inputs |-> {}, executed |-> <<>> ]

\* The call made last on the objects and what it was given.
Op(name, tool_name, parameters, categories, actions, query, valid, method) ==
    [ name |-> name, tool_name |-> tool_name, parameters |-> parameters,
      categories |-> categories, actions |-> actions, query |-> query,
      valid |-> valid, method |-> method ]

NoOp == Op("none", None, EmptyArgs, <<>>, <<>>, None, TRUE, "ok")

\* MetaTools.__init__, an AgentTools registry no call has reached and the
\* Agent built on it:
\* registry logs the execute_tool calls, method the calls of bound service
\* methods; before, registry_before and method_before are the stash and the
\* lengths of the two logs as the last call found them.
ToolsStart ==
    [ _pending_confirmation |-> NoStash, before |-> NoStash,
      registry |-> <<>>, method |-> <<>>,
      registry_before |-> 0, method_before |-> 0,
      op |-> NoOp, returned |-> NoReturn, raised |-> FALSE, steps |-> 0,
      agent |-> AgentStart ]

\* What a bound service method does once it is called: it returns a Result
\* with success true or false, or it throws.
MethodOutcomes == {"ok", "fail", "raise"}

\* registry.py: execute_tool with the bound method called also when the
\* arguments fail validation.
AgentTools_execute_tool_SkipsValidation(name, valid, method) ==
    IF name \notin DOMAIN TOOL_DEFINITIONS
    THEN [ result |-> [success |-> FALSE, error |-> "not_found"],
           method_called |-> FALSE, raised |-> FALSE ]
    ELSE IF method = "raise"
    THEN [ result |-> [success |-> FALSE, error |-> "exception"],
           method_called |-> TRUE, raised |-> FALSE ]
    ELSE [ result |-> execute_tool(method = "ok"),
           method_called |-> TRUE, raised |-> FALSE ]

\* registry.py: AgentTools.execute_tool on a tool name, arguments that pass
\* the tool's schema or not, and a bound method that behaves as method.
AgentTools_execute_tool(name, valid, method) ==
    IF name \notin DOMAIN TOOL_DEFINITIONS
    THEN [ result |-> [success |-> FALSE, error |-> "not_found"],
           method_called |-> FALSE, raised |-> FALSE ]
    ELSE IF ~valid
    THEN [ result |-> [success |-> FALSE, error |-> "validation_error"],
           method_called |-> FALSE, raised |-> FALSE ]
    ELSE IF method = "raise"
    THEN [ result |-> [success |-> FALSE, error |-> "exception"],
           method_called |-> TRUE, raised |-> FALSE ]
    ELSE [ result |-> execute_tool(method = "ok"),
           method_called |-> TRUE, raised |-> FALSE ]

\* The objects after a registry call made with (name, arguments).
AfterRegistryCall(t, name, arguments, valid, method) ==
    LET r == AgentTools_execute_tool(name, valid, method)
    IN  [t EXCEPT
            !.registry = Append(t.registry,
                            [name |-> name, arguments |-> arguments]),
            !.method = IF r.method_called
                       THEN Append(t.method,
                                [name |-> name, arguments |-> arguments])
                       ELSE t.method,
            !.returned = Ret("result", r.result.success, r.result.error,
                             None, EmptyArgs, <<>>),
            !.raised = r.raised]

\* The tool names and parameters the objects are called with.
ApiTools ==
    {"list_tasks", "add_calendar_event", "delete_calendar_event",
     "delete_task", "no_such_tool"}

ApiParameters == {EmptyArgs, [task_id |-> "t1"]}

CategoryFilters == {<<>>, <<"calendar">>, <<"tasks", "gmail">>, <<"notes">>}

ActionFilters == {<<>>, <<"delete">>, <<"list", "create">>, <<"fly">>}

Queries == {None, "", "Delete", "LIST", "zzz"}

graphVars == <<state, next, running, planner, calls, turn, req>>

\* The bookkeeping every call on the objects starts with: the call is
\* noted and the stash it finds is remembered.
Called(op) ==
    [tools EXCEPT !.op = op, !.before = tools._pending_confirmation,
                  !.registry_before = Len(tools.registry),
                  !.method_before = Len(tools.method),
                  !.steps = tools.steps + 1, !.raised = FALSE]

\* tool_index.py / meta_tools.py: discover_tools.
DiscoverTools ==
    /\ tools.steps < MaxApiCalls
    /\ \E categories \in CategoryFilters, actions \in ActionFilters,
          query \in Queries :
          LET found == discover_tools(categories, actions, query)
          IN  tools' =
                [Called(Op("discover_tools", None, EmptyArgs, categories,
                           actions, query, TRUE, "ok"))
                    EXCEPT !.returned = Ret("tools", TRUE, None, None,
                                            EmptyArgs, found.tools)]
    /\ UNCHANGED graphVars

\* meta_tools.py: MetaTools.invoke_tool on the object.
InvokeTool ==
    /\ tools.steps < MaxApiCalls
    /\ \E tool_name \in ApiTools, parameters \in ApiParameters,
          valid \in BOOLEAN, method \in MethodOutcomes :
          LET t == Called(Op("invoke_tool", tool_name, parameters, <<>>, <<>>,
                             None, valid, method))
          IN  IF tool_name \in WriteDeleteTools
              THEN tools' =
                    [t EXCEPT
                        !._pending_confirmation =
                            [tool_name |-> tool_name, parameters |-> parameters],
                        !.returned = Ret("pending_confirmation", FALSE, None,
                                         tool_name, parameters, <<>>)]
              ELSE tools' =
                    AfterRegistryCall(t, tool_name, parameters, valid, method)
    /\ UNCHANGED graphVars

\* meta_tools.py: MetaTools.execute_pending.
ExecutePending ==
    /\ tools.steps < MaxApiCalls
    /\ \E valid \in BOOLEAN, method \in MethodOutcomes :
          LET t == Called(Op("execute_pending", None, EmptyArgs, <<>>, <<>>,
                             None, valid, method))
              stash == tools._pending_confirmation
          IN  IF stash = NoStash
              THEN tools' =
                    [t EXCEPT !.returned =
                        Ret("error", FALSE, "No pending action to execute",
                            None, EmptyArgs, <<>>)]
              ELSE tools' =
                    [AfterRegistryCall(t, stash.tool_name, stash.parameters,
                                       valid, method)
                        EXCEPT !._pending_confirmation = NoStash]
    /\ UNCHANGED graphVars

\* meta_tools.py: MetaTools.clear_pending_confirmation.
ClearPendingConfirmation ==
    /\ tools.steps < MaxApiCalls
    /\ tools' = [Called(Op("clear_pending_confirmation", None, EmptyArgs,
                           <<>>, <<>>, None, TRUE, "ok"))
                    EXCEPT !._pending_confirmation = NoStash,
                           !.returned = NoReturn]
    /\ UNCHANGED graphVars

\* registry.py: AgentTools.execute_tool called directly.
ExecuteTool ==
    /\ tools.steps < MaxApiCalls
    /\ \E name \in ApiTools, arguments \in ApiParameters,
          valid \in BOOLEAN, method \in MethodOutcomes :
          tools' = AfterRegistryCall(
                        Called(Op("execute_tool", name, arguments, <<>>, <<>>,
                                  None, valid, method)),
                        name, arguments, valid, method)
    /\ UNCHANGED graphVars

\* ---------------------------------------------------- the specifications
Messages == {"delete the event"}

\* The confirmation replies the entry points are given.
Replies == {"yes", "no", "edit", "maybe"}

Init ==
    /\ state = InitialState
    /\ next = "none"
    /\ running = FALSE
    /\ planner = PlannerStart
    /\ calls = <<>>
    /\ turn = 0
    /\ req = NoRequest
    /\ tools = ToolsStart

Next ==
    \/ \E m \in Messages : Chat(m)
    \/ \E r \in Replies : Confirm(r)
    \/ Cancel
    \/ ClassifyIntent
    \/ PlanIterate
    \/ PlanFinish
    \/ PlanRaises
    \/ RouteExecution
    \/ Interrupt
    \/ ExecuteParallel
    \/ ExecuteParallelBlocks
    \/ SynthesizeResponse
    \/ SynthesizeRaises

\* The steps of a graph run, which the runner takes as long as one is due.
RunStep ==
    \/ ClassifyIntent
    \/ PlanIterate
    \/ PlanFinish
    \/ PlanRaises
    \/ RouteExecution
    \/ Interrupt
    \/ ExecuteParallel
    \/ ExecuteParallelBlocks
    \/ SynthesizeResponse
    \/ SynthesizeRaises

\* The program as its entry points drive it. Every action the planner
\* records has an empty depends_on, so no run started by an entry point is
\* routed to execute_sequential.
Spec == Init /\ [][Next]_vars

\* The program with a graph run that goes on while a step of it is due.
SpecLive == Spec /\ WF_vars(RunStep)

\* The MetaTools object and the AgentTools registry behind it, called in
\* any order by a client; no graph run is in progress.
NextTools ==
    \/ DiscoverTools
    \/ InvokeTool
    \/ ExecutePending
    \/ ClearPendingConfirmation
    \/ ExecuteTool

SpecTools == Init /\ [][NextTools]_vars

\* The graph from the router on, on thread states drawn from bounded sets:
\* the run that continues an interrupted thread past the interrupt. No
\* entry point of the repository starts such a run (they all pass an input,
\* see Start); it is what the compiled graph does when the thread is resumed.
GateTools == {"list_tasks", "delete_calendar_event", "delete_task"}

GateArgs(tool) ==
    CASE tool = "delete_calendar_event" -> {[event_id |-> "e1"], EmptyArgs}
      [] tool = "delete_task" -> {[task_id |-> "t1"]}
      [] OTHER -> {EmptyArgs}

GateActions(i) ==
    UNION { { [ id |-> i, tool |-> t, args |-> a, depends_on |-> d,
                pending_confirmation |-> t \in DESTRUCTIVE_TOOLS ] :
              a \in GateArgs(t),
              d \in {<<>>} \cup {<<j>> : j \in (1..MaxActions) \ {i}} } :
            t \in GateTools }

GatePlans ==
    UNION { { p \in [1..n -> UNION {GateActions(i) : i \in 1..MaxActions}] :
                \A i \in 1..n : p[i].id = i } : n \in 0..MaxActions }

GateReplies ==
    AffirmativeTokens \cup NegativeTokens
        \cup {"edit", "maybe", "", " Yes ", "NO", " Edit", None}

\* The results the planner leaves: one for each action it ran itself.
PlannedResults(actions) ==
    [id \in {actions[i].id : i \in {j \in 1..Len(actions) :
                                        ~IsDestructive(actions[j])}} |->
        execute_tool(TRUE)]

InitGate ==
    /\ \E p \in GatePlans : \E rc \in BOOLEAN : \E r \in GateReplies :
          /\ state = [InitialState EXCEPT
                        !.user_message = "delete the event",
                        !.actions = p,
                        !.results = PlannedResults(p),
                        !.requires_confirmation = rc,
                        !.user_confirmation = r]
          /\ req = [NoRequest EXCEPT !.kind = "resume", !.reply = r,
                                     !.suspended = TRUE,
                                     !.stored_actions = p]
    /\ next = "route_execution"
    /\ running = TRUE
    /\ planner = PlannerStart
    /\ calls = <<>>
    /\ turn = 1
    /\ tools = ToolsStart

NextGate ==
    \/ RouteExecution
    \/ ConfirmActions
    \/ ExecuteParallel
    \/ ExecuteParallelBlocks
    \/ ExecuteSequential
    \/ SynthesizeResponse
    \/ SynthesizeRaises

SpecGate == InitGate /\ [][NextGate]_vars

\* The same run under the scheduling of the graph runner: graph.invoke runs
\* the thread's next node as long as there is one.
SpecGateLive == SpecGate /\ WF_vars(NextGate)

\* The synthesizer on thread states drawn from bounded sets: a plan, a
\* confirmation message or none, a pending confirmation or none, a
\* plan-level error or none.
InitSynth ==
    /\ \E p \in GatePlans :
       \E cm \in {[kind |-> "none", lines |-> <<>>],
                   [kind |-> "prompt", lines |-> <<>>],
                   _build_confirmation_message(p)} :
       \E pc \in {<<>>, p} :
       \E e \in {None, "planning failed"} :
          state = [InitialState EXCEPT
                        !.user_message = "delete the event",
                        !.actions = p,
                        !.results = PlannedResults(p),
                        !.requires_confirmation = DestructiveActions(p) # <<>>,
                        !.pending_confirmation = pc,
                        !.confirmation_message = cm,
                        !.error = e]
    /\ req = [NoRequest EXCEPT !.kind = "resume"]
    /\ next = "synthesize_response"
    /\ running = TRUE
    /\ planner = PlannerStart
    /\ calls = <<>>
    /\ turn = 1
    /\ tools = ToolsStart

NextSynth ==
    \/ SynthesizeResponse
    \/ SynthesizeRaises

SpecSynth == InitSynth /\ [][NextSynth]_vars

\* The sequential executor on plans whose arguments refer to other actions
\* of the plan, by a plain argument or by the key from_result.
InjectArgs ==
    { EmptyArgs,
      [title |-> "milk"],
      [title |-> IdName(1)],
      [from_result |-> IdName(1)],
      [title |-> IdName(2), from_result |-> IdName(1)] }

InjectPlans ==
    UNION { [1..n -> [ id : 1..MaxActions, tool : {"create_task"},
                       args : InjectArgs,
                       depends_on : {<<>>} \cup {<<j>> : j \in 1..MaxActions},
                       pending_confirmation : {FALSE} ]]
            : n \in 1..MaxActions }

InitInject ==
    /\ \E p \in InjectPlans :
          /\ \A i \in 1..Len(p) : p[i].id = i /\ p[i].depends_on # <<i>>
          /\ state = [InitialState EXCEPT
                        !.user_message = "add milk to the list",
                        !.actions = p,
                        !.execution_mode = "sequential"]
          /\ req = [NoRequest EXCEPT !.kind = "resume", !.stored_actions = p,
                                     !.visited = <<"route_execution">>]
    /\ next = "execute_sequential"
    /\ running = TRUE
    /\ planner = PlannerStart
    /\ calls = <<>>
    /\ turn = 1
    /\ tools = ToolsStart

NextInject ==
    \/ ExecuteSequential
    \/ SynthesizeResponse
    \/ SynthesizeRaises

SpecInject == InitInject /\ [][NextInject]_vars

\* -------------------------------------------- the router and the executors
\* An id no plan uses: a result left under it belongs to no action.
StaleId == MaxActions + 1

\* The router about to run on a thread that holds a plan, its flag, and
\* possibly a result under an id outside the plan, a confirmation message,
\* pending actions and an error.
InitFrame ==
    /\ \E p \in GatePlans : \E rc \in BOOLEAN :
       \E stale \in { EmptyArgs, (StaleId :> execute_tool(TRUE)) } :
       \E kept \in BOOLEAN :
          /\ state = [InitialState EXCEPT
                        !.user_message = "delete the event",
                        !.actions = p,
                        !.results = PlannedResults(p) @@ stale,
                        !.requires_confirmation = rc,
                        !.pending_confirmation =
                            IF kept THEN DestructiveActions(p) ELSE <<>>,
                        !.confirmation_message =
                            IF kept THEN _build_confirmation_message(p)
                            ELSE [kind |-> "none", lines |-> <<>>],
                        !.user_confirmation = IF kept THEN "yes" ELSE None,
                        !.error = IF kept THEN "planning failed" ELSE None]
          /\ req = [NoRequest EXCEPT !.kind = "resume",
                                     !.stored_actions = p]
    /\ next = "route_execution"
    /\ running = TRUE
    /\ planner = PlannerStart
    /\ calls = <<>>
    /\ turn = 1
    /\ tools = ToolsStart

NextFrame ==
    \/ RouteExecution
    \/ ConfirmActions
    \/ ExecuteParallel
    \/ ExecuteSequential

SpecFrame == InitFrame /\ [][NextFrame]_vars

\* ------------------------------------- the parallel executor, step by step
\* The plans the parallel executor is routed: no action has a dependency.
WorkerPlans == {p \in GatePlans : p # <<>> /\ ~AnyDependsOn(p)}

InitWorkers ==
    /\ \E p \in WorkerPlans :
          /\ state = [InitialState EXCEPT
                        !.user_message = "delete the event",
                        !.actions = p,
                        !.results = PlannedResults(p)]
          /\ req = [NoRequest EXCEPT !.kind = "resume",
                                     !.stored_actions = p,
                                     !.visited = <<"route_execution">>]
    /\ next = "execute_parallel"
    /\ running = TRUE
    /\ planner = PlannerStart
    /\ calls = <<>>
    /\ turn = 1
    /\ tools = ToolsStart

NextWorkers ==
    \/ ParallelSubmit
    \/ WorkerCompletes
    \/ CollectorTakes
    \/ ParallelReturns

SpecWorkers == InitWorkers /\ [][NextWorkers]_vars

\* ---------------------------------------------- the sort on longer plans
\* The longest plan whose order is looked at.
MaxSortActions == 3

\* The ascending sequences of the ids of a set.
RECURSIVE Ascending(_)
Ascending(ids) ==
    IF ids = {} THEN <<>>
    ELSE LET m == CHOOSE x \in ids : \A y \in ids : x <= y
         IN  <<m>> \o Ascending(ids \ {m})

\* Plans of one to MaxSortActions actions a1..an, each depending on any
\* set of the other ids up to MaxSortActions (some not in the plan).
SortPlans ==
    UNION { { p \in [1..n -> [ id : 1..n, tool : {"create_task"},
                               args : {EmptyArgs},
                               depends_on :
                                   {Ascending(d) : d \in SUBSET (1..MaxSortActions)},
                               pending_confirmation : {FALSE} ]] :
                \A i \in 1..n : p[i].id = i /\ i \notin Range(p[i].depends_on) }
            : n \in 1..MaxSortActions }

InitSort ==
    /\ \E p \in SortPlans :
          /\ state = [InitialState EXCEPT
                        !.user_message = "add milk to the list",
                        !.actions = p,
                        !.execution_mode = "sequential"]
          /\ req = [NoRequest EXCEPT !.kind = "resume", !.stored_actions = p,
                                     !.visited = <<"route_execution">>]
    /\ next = "execute_sequential"
    /\ running = TRUE
    /\ planner = PlannerStart
    /\ calls = <<>>
    /\ turn = 1
    /\ tools = ToolsStart

NextSort == ExecuteSequential

SpecSort == InitSort /\ [][NextSort]_vars

\* ------------------------------------------- process_confirmation, applied
\* The node process_confirmation run on the thread's state: it returns the
\* state it computes, or raises.
ProcessConfirmation ==
    /\ running /\ next = "process_confirmation"
    /\ IF process_confirmation_raises(state)
       THEN /\ req' = [Visit("process_confirmation") EXCEPT !.raised = TRUE]
            /\ UNCHANGED <<state, next>>
       ELSE /\ state' = process_confirmation(state)
            /\ next' = "END"
            /\ req' = Visit("process_confirmation")
    /\ running' = FALSE
    /\ UNCHANGED <<planner, calls, turn, tools>>

\* The gate has built its prompt for a plan; the reply is None (none has
\* arrived), empty, blank, or a word in some spelling.
InitConfirm ==
    /\ \E p \in GatePlans : \E r \in GateReplies \cup {"  "} :
          /\ state = [confirm_actions(
                            [InitialState EXCEPT
                                !.user_message = "delete the event",
                                !.actions = p,
                                !.results = PlannedResults(p),
                                !.requires_confirmation =
                                    DestructiveActions(p) # <<>>])
                        EXCEPT !.user_confirmation = r]
          /\ req = [NoRequest EXCEPT !.kind = "resume", !.reply = r,
                                     !.suspended = TRUE,
                                     !.stored_actions = p,
                                     !.visited = <<"confirm_actions">>]
    /\ next = "process_confirmation"
    /\ running = TRUE
    /\ planner = PlannerStart
    /\ calls = <<>>
    /\ turn = 1
    /\ tools = ToolsStart

NextConfirm == ProcessConfirmation

SpecConfirm == InitConfirm /\ [][NextConfirm]_vars

\* ---------------------------------------------- the planner, both strategies
\* prompts/config.py: PromptMode.
PromptModes == {"legacy", "dspy"}

\* A run that has reached plan_actions with a user message, under either
\* strategy of PromptConfig, on a fresh thread or on one that holds the
\* plan of an earlier turn.
InitPlan ==
    /\ \E mode \in PromptModes : \E p \in GatePlans \cup {<<>>} :
          /\ planner = [PlannerStart EXCEPT !.mode = mode]
          /\ state = [InitialState EXCEPT
                            !.user_message = "delete the event",
                            !.actions = p,
                            !.results = PlannedResults(p),
                            !.requires_confirmation =
                                DestructiveActions(p) # <<>>]
    /\ req = [NoRequest EXCEPT !.kind = "chat",
                                !.stored_actions = state.actions,
                                !.visited = <<"classify_intent">>]
    /\ next = "plan_actions"
    /\ running = TRUE
    /\ calls = <<>>
    /\ turn = 1
    /\ tools = ToolsStart

NextPlan ==
    \/ PlanIterateMessages
    \/ PlanFinish
    \/ PlanRaises
    \/ PlanActionsDspy
    \/ RouteExecution

SpecPlan == InitPlan /\ [][NextPlan]_vars

\* A thread whose suspended plan was answered with a yes and continued past
\* the interrupt, and the confirmation replies api/main.py confirm_action is
\* then given for it.
InitReplay ==
    /\ InitGate
    /\ state.requires_confirmation
    /\ Normalize(state.user_confirmation) \in AffirmativeTokens
    /\ ~AnyDependsOn(state.actions)

NextReplay ==
    \/ RouteExecution
    \/ ConfirmActions
    \/ ExecuteParallel
    \/ ExecuteParallelBlocks
    \/ SynthesizeResponse
    \/ SynthesizeRaises
    \/ \E r \in Replies : Confirm(r)
    \/ ClassifyIntent
    \/ PlanIterate
    \/ PlanFinish
    \/ PlanRaises
    \/ Interrupt

SpecReplay == InitReplay /\ [][NextReplay]_vars

\* ------------------------------------------------ the Agent class's loop
\* agent.py: Agent.__init__, "max_iterations: int = 5".
Agent_max_iterations == 5

\* agent.py: "self.max_history_length = 20".
max_history_length == 20

\* agent.py: Agent._is_destructive_action.
_is_destructive_action(tool_name) ==
    tool_name \in {"delete_calendar_event", "delete_task"}

\* agent.py: Agent._trim_conversation_history.
_trim_conversation_history(history) ==
    IF Len(history) > max_history_length
    THEN SubSeq(history, Len(history) - max_history_length + 1, Len(history))
    ELSE history

\* The messages the user sends to the Agent.
AgentInputs == {"delete the task", "yes"}

\* The tool calls the language model puts in a response.
AgentToolCalls ==
    { [name |-> "list_tasks", args |-> EmptyArgs],
      [name |-> "delete_task", args |-> [task_id |-> "t1"]] }

\* response.tool_calls when it is not empty.
AgentResponses ==
    UNION {[1..n -> AgentToolCalls] : n \in 1..MaxToolCalls}

\* agent.py: Agent._execute_tool_call and the ToolMessage appended for its
\* result. The call goes to the registry whatever _is_destructive_action
\* says of the tool; the bound method is given valid arguments and returns.
_execute_tool_call(t, tool_call) ==
    LET r == AfterRegistryCall(t, tool_call.name, tool_call.args, TRUE, "ok")
    IN  [r EXCEPT
            !.agent.conversation_history =
                Append(@, [role |-> "tool", content |-> tool_call.name]),
            !.agent.executed =
                Append(@, [tool_name |-> tool_call.name,
                           inputs |-> t.agent.inputs])]

\* "for tool_call in response.tool_calls" of process_message.
RECURSIVE ExecuteToolCalls(_, _)
ExecuteToolCalls(t, tool_calls) ==
    IF tool_calls = <<>> THEN t
    ELSE ExecuteToolCalls(_execute_tool_call(t, Head(tool_calls)),
                          Tail(tool_calls))

\* agent.py: Agent.process_message up to its loop: the HumanMessage is
\* appended to the history.
AgentProcessMessage(user_input) ==
    /\ ~tools.agent.processing
    /\ tools.agent.messages < MaxTurns
    /\ tools' =
        [tools EXCEPT
            !.agent.conversation_history =
                Append(@, [role |-> "human", content |-> user_input]),
            !.agent.iteration = 0,
            !.agent.processing = TRUE,
            !.agent.returned = None,
            !.agent.messages = @ + 1,
            !.agent.inputs = @ \cup {user_input}]
    /\ UNCHANGED graphVars

\* One iteration of the loop whose response has tool calls: the response is
\* appended and every call of it is executed.
AgentToolIteration ==
    /\ tools.agent.processing
    /\ tools.agent.iteration < Agent_max_iterations
    /\ \E response \in AgentResponses :
          tools' =
            [ExecuteToolCalls(
                [tools EXCEPT
                    !.agent.conversation_history =
                        Append(@, [role |-> "ai", content |-> "tool_calls"])],
                response)
                EXCEPT !.agent.iteration = @ + 1]
    /\ UNCHANGED graphVars

\* One iteration of the loop whose response has no tool calls: the final
\* text response is appended, the history trimmed and the text returned.
AgentFinalResponse ==
    /\ tools.agent.processing
    /\ tools.agent.iteration < Agent_max_iterations
    /\ tools' =
        [tools EXCEPT
            !.agent.conversation_history =
                _trim_conversation_history(
                    Append(@, [role |-> "ai", content |-> "text"])),
            !.agent.processing = FALSE,
            !.agent.returned = "text"]
    /\ UNCHANGED graphVars

\* The loop ran max_iterations times: the fallback response is appended,
\* the history trimmed and the fallback returned.
AgentFallback ==
    /\ tools.agent.processing
    /\ tools.agent.iteration = Agent_max_iterations
    /\ tools' =
        [tools EXCEPT
            !.agent.conversation_history =
                _trim_conversation_history(
                    Append(@, [role |-> "ai", content |-> "fallback"])),
            !.agent.processing = FALSE,
            !.agent.returned = "fallback"]
    /\ UNCHANGED graphVars

\* The Agent object driven by a user: process_message called with one
\* message after the other.
NextAgent ==
    \/ \E user_input \in AgentInputs : AgentProcessMessage(user_input)
    \/ AgentToolIteration
    \/ AgentFinalResponse
    \/ AgentFallback

SpecAgent == Init /\ [][NextAgent]_vars

\* ------------------------------------------------------------ the claims
\* The invocation last made has returned to its caller without raising.
Returned == ~running /\ req.kind # "none" /\ ~req.raised

\* The destructive invocations logged after the first n.
DestructiveCallsAfter(n) ==
    {i \in (n + 1)..Len(calls) : calls[i].tool \in DESTRUCTIVE_TOOLS}

\* The invocation answers a suspended plan that holds a destructive action.
AnswersPendingDelete ==
    /\ req.kind \in {"confirm", "cancel"}
    /\ req.suspended
    /\ DestructiveActions(req.stored_actions) # <<>>

\* C1: a destructive tool (delete_calendar_event, delete_task) is invoked
\* only by an executor node and only on a plan the user has answered with
\* an affirmative reply; the planner invokes none, and no invocation made
\* for a negative, "edit", empty or unrecognized reply is destructive.
C1_DestructiveOnlyAfterYes ==
    \A i \in 1..Len(calls) :
        calls[i].tool \in DESTRUCTIVE_TOOLS =>
            /\ calls[i].node \in {"execute_parallel", "execute_sequential"}
            /\ calls[i].confirmed

\* A plan with a delete was suspended, the user answered no, the run has
\* returned and no destructive invocation was ever made.
C1_Witness ==
    /\ Returned
    /\ AnswersPendingDelete
    /\ Normalize(req.reply) \in NegativeTokens
    /\ DestructiveActions(state.actions) # <<>>
    /\ DestructiveCallsAfter(0) = {}

\* C2: once the invocation that answers "yes" to a plan suspended with one
\* pending delete action has returned, exactly one destructive invocation
\* has been made since the reply arrived.
C2_ExactlyOneDelete ==
    ( /\ Returned
      /\ AnswersPendingDelete
      /\ req.kind = "confirm"
      /\ Normalize(req.reply) \in AffirmativeTokens
      /\ Len(DestructiveActions(req.stored_actions)) = 1 )
    => Cardinality(DestructiveCallsAfter(req.calls_before)) = 1

\* C3: an invocation that brings a user_confirmation to a suspended thread
\* does not run the planner, and the thread's actions stay the ones stored
\* at suspension.
C3_ResumeSkipsPlanner ==
    (req.kind = "confirm" /\ req.suspended) =>
        /\ "plan_actions" \notin Range(req.visited)
        /\ state.actions = req.stored_actions

\* C4: an invocation that submits "yes" again for a thread whose plan was
\* confirmed and whose destructive actions were executed makes no
\* destructive invocation.
C4_ReplayDoesNotReexecute ==
    ( /\ req.kind = "confirm"
      /\ ~req.suspended
      /\ Normalize(req.reply) \in AffirmativeTokens
      /\ DestructiveCallsAfter(0) \cap (1..req.calls_before) # {} )
    => DestructiveCallsAfter(req.calls_before) = {}

\* The delete of a confirmed plan was executed, "yes" was submitted again,
\* the planner proposed the delete anew and the run has returned suspended
\* with no further destructive invocation.
C4_Witness ==
    /\ Returned
    /\ req.kind = "confirm"
    /\ ~req.suspended
    /\ Normalize(req.reply) \in AffirmativeTokens
    /\ Cardinality(DestructiveCallsAfter(0)) = 1
    /\ DestructiveCallsAfter(req.calls_before) = {}
    /\ Suspended
    /\ DestructiveActions(state.actions) = DestructiveActions(req.stored_actions)
    /\ DestructiveActions(state.actions) # <<>>

C6_SuspendedPromptNamesId ==
    (Suspended /\ DestructiveActions(state.actions) # <<>>) =>
        /\ DestructiveCallsAfter(0) = {}
        /\ state.confirmation_message.kind = "prompt"
        /\ \A i \in 1..Len(state.actions) :
              (IsDestructive(state.actions[i])
                    /\ ConfirmationLine(state.actions[i]).id # None) =>
                 ConfirmationLine(state.actions[i])
                    \in Range(state.confirmation_message.lines)

C8_NoReportsCancellation ==
    ( /\ Returned
      /\ AnswersPendingDelete
      /\ Normalize(req.reply) \in NegativeTokens )
    => /\ state.final_response.kind = "cancelled"
       /\ DestructiveCallsAfter(req.calls_before) = {}

\* C9: when the invocation that answers a suspended plan with a negative
\* reply has returned, the actions list holds no destructive action, holds
\* the plan's non-destructive actions in their order, and
\* pending_confirmation is cleared.
C9_NoStripsDestructive ==
    ( /\ Returned
      /\ AnswersPendingDelete
      /\ Normalize(req.reply) \in NegativeTokens )
    => /\ DestructiveActions(state.actions) = <<>>
       /\ state.actions = NonDestructiveActions(req.stored_actions)
       /\ state.pending_confirmation = <<>>

\* C10: when the invocation that answers a suspended plan with "edit" or an
\* unrecognized reply has returned, the thread is still held before the
\* gate with the stored actions, and no tool was invoked for the reply.
C10_EditHoldsPlan ==
    ( /\ Returned
      /\ AnswersPendingDelete
      /\ Normalize(req.reply) \notin (AffirmativeTokens \cup NegativeTokens) )
    => /\ Suspended
       /\ state.actions = req.stored_actions
       /\ Len(calls) = req.calls_before

\* Every action of the plan has an entry in results.
EveryActionHasResult ==
    \A i \in 1..Len(state.actions) : state.actions[i].id \in DOMAIN state.results

\* C11: when execute_tools_parallel has returned for a plan of two or more
\* actions of which exactly one invocation raised, results has an entry for
\* every action id, the entry of the raising action has success = false,
\* and the entry of every action whose invocation returned a Result is
\* that Result.
C11_ParallelFaultIsolation ==
    ( /\ "execute_parallel" \in Range(req.visited)
      /\ Len(state.actions) >= 2
      /\ Cardinality({c \in CallsOf("execute_parallel") :
                        calls[c].outcome = "raise"}) = 1 )
    => /\ EveryActionHasResult
       /\ \A c \in CallsOf("execute_parallel") :
             /\ calls[c].outcome = "raise" =>
                    ~ResultOf(state.results, calls[c].id).success
             /\ calls[c].outcome \in {"ok", "fail"} =>
                    ResultOf(state.results, calls[c].id) =
                        execute_tool(calls[c].outcome = "ok")

\* The first of two submitted invocations raised, the second returned a
\* failure of its own, and the executor returned both Results.
C11_Witness ==
    /\ "execute_parallel" \in Range(req.visited)
    /\ Len(state.actions) = 2
    /\ Len(calls) = 2
    /\ calls[1].node = "execute_parallel" /\ calls[1].outcome = "raise"
    /\ calls[2].node = "execute_parallel" /\ calls[2].outcome = "fail"
    /\ state.results[calls[1].id].error = "exception"
    /\ state.results[calls[2].id] = execute_tool(FALSE)

\* C12: a run that enters the parallel executor eventually leaves it with
\* an entry in results for every submitted action, also when one of the
\* invocations never completes.
C12_ParallelAlwaysReturns ==
    (running /\ next = "execute_parallel")
        ~> ("execute_parallel" \in Range(req.visited) /\ EveryActionHasResult)

\* The ids of the plan's actions.
PlanIds(actions) == {actions[i].id : i \in 1..Len(actions)}

\* Every depends_on of the plan names an id of the plan.
RefsInPlan(actions) ==
    \A i \in 1..Len(actions) : Range(actions[i].depends_on) \subseteq PlanIds(actions)

\* The depends_on relation has no cycle: the ids can be ranked so that
\* every action ranks above the actions of the plan it depends on.
Acyclic(actions) ==
    \E rank \in [PlanIds(actions) -> 1..Len(actions)] :
        \A i \in 1..Len(actions) :
            \A d \in Range(actions[i].depends_on) \cap PlanIds(actions) :
                rank[d] < rank[actions[i].id]

\* The invocations the sequential executor made for the action id.
SequentialCallsFor(id) ==
    {c \in CallsOf("execute_sequential") : calls[c].id = id}

\* C13: when execute_tools_sequential has returned for a plan whose
\* depends_on relation is acyclic and names only ids of the plan, it has
\* invoked every action exactly once, and every action after all the
\* actions it depends on.
C13_SequentialOrder ==
    ( /\ "execute_sequential" \in Range(req.visited)
      /\ RefsInPlan(state.actions)
      /\ Acyclic(state.actions) )
    => \A i \in 1..Len(state.actions) :
          /\ Cardinality(SequentialCallsFor(state.actions[i].id)) = 1
          /\ \A d \in Range(state.actions[i].depends_on) :
                \A c \in SequentialCallsFor(state.actions[i].id) :
                    \E b \in SequentialCallsFor(d) : b < c

\* The first action of the plan depends on the second, and the executor
\* invoked the second before the first.
C13_Witness ==
    /\ "execute_sequential" \in Range(req.visited)
    /\ Len(state.actions) = 2
    /\ state.actions[1].depends_on = <<state.actions[2].id>>
    /\ state.actions[2].depends_on = <<>>
    /\ Len(calls) = 2
    /\ calls[1].id = state.actions[2].id
    /\ calls[2].id = state.actions[1].id

\* An action is on a cycle of depends_on or depends, directly or not, on
\* an action that is: no ranking of the plan places it.
OnOrBehindCycle(actions, id) ==
    /\ id \in PlanIds(actions)
    /\ ~\E keep \in SUBSET PlanIds(actions) :
          /\ id \in keep
          /\ \A k \in keep :
                Range(ActionById(actions, k).depends_on) \cap PlanIds(actions)
                    \subseteq keep
          /\ Acyclic(SelectSeq(actions, LAMBDA a : a.id \in keep))

\* C14: when execute_tools_sequential has returned for a plan whose
\* depends_on relation has a cycle, it has invoked none of the actions on
\* or behind the cycle and the plan-level error is set.
C14_CycleIsAnError ==
    ( /\ "execute_sequential" \in Range(req.visited)
      /\ RefsInPlan(state.actions)
      /\ ~Acyclic(state.actions) )
    => /\ \A i \in 1..Len(state.actions) :
             OnOrBehindCycle(state.actions, state.actions[i].id) =>
                SequentialCallsFor(state.actions[i].id) = {}
       /\ state.error # None

\* C15: when a run has ended for a plan in which a depends_on names an id
\* that is not in the plan, the plan-level error is set and final_response
\* is the synthesizer's error explanation.
C15_MissingDependencyIsAnError ==
    (next = "END" /\ ~RefsInPlan(state.actions))
    => /\ state.error # None
       /\ state.final_response.kind = "error"

\* C16: when execute_tools_sequential has returned for an acyclic plan,
\* every action of the plan was invoked, also behind an invocation that
\* raised or returned a failure, every action id has an entry in results,
\* and the entry of an action whose invocation raised or failed has
\* success = false.
C16_SequentialFaultIsolation ==
    ( /\ "execute_sequential" \in Range(req.visited)
      /\ RefsInPlan(state.actions)
      /\ Acyclic(state.actions) )
    => /\ \A i \in 1..Len(state.actions) :
             SequentialCallsFor(state.actions[i].id) # {}
       /\ EveryActionHasResult
       /\ \A c \in CallsOf("execute_sequential") :
             calls[c].outcome # "ok" =>
                ~ResultOf(state.results, calls[c].id).success

\* The first invocation of the order raised and the action that depends on
\* it was invoked all the same and succeeded.
C16_Witness ==
    /\ "execute_sequential" \in Range(req.visited)
    /\ Len(state.actions) = 2
    /\ Len(calls) = 2
    /\ calls[1].outcome = "raise"
    /\ calls[2].outcome = "ok"
    /\ calls[1].id \in Range(ActionById(state.actions, calls[2].id).depends_on)
    /\ ~state.results[calls[1].id].success
    /\ state.results[calls[2].id].success

\* The node the invocation in progress ran last.
LastVisited ==
    IF req.visited = <<>> THEN "none" ELSE req.visited[Len(req.visited)]

\* C17: an invocation that is over and not suspended at the gate has run to
\* the synthesizer without raising and final_response is set, also when the
\* planner's model call threw, a tool failed or the synthesizer's model
\* call threw.
C17_FailuresEndInResponse ==
    (~running /\ req.kind # "none" /\ ~Suspended)
    => /\ ~req.raised
       /\ next = "END"
       /\ LastVisited = "synthesize_response"
       /\ state.final_response.kind # "none"

\* C18: a turn opened by a user message starts with pending_confirmation,
\* confirmation_message, user_confirmation, error, results and
\* final_response as create_initial_state leaves them, and the
\* final_response its invocation returns was written by its own
\* synthesizer.
C18_FreshTurnState ==
    /\ (running /\ req.kind = "chat" /\ req.visited = <<>>) =>
          /\ state.pending_confirmation = InitialState.pending_confirmation
          /\ state.confirmation_message = InitialState.confirmation_message
          /\ state.user_confirmation = InitialState.user_confirmation
          /\ state.error = InitialState.error
          /\ state.results = InitialState.results
          /\ state.final_response = InitialState.final_response
    /\ (Returned /\ req.kind = "chat"
            /\ "synthesize_response" \notin Range(req.visited)) =>
          state.final_response = InitialState.final_response

C20_PlannerTerminates ==
    /\ [](planner.iteration <= max_iterations)
    /\ [][(running /\ next = "plan_actions"
                /\ planner.iteration = max_iterations)
            => /\ next' = "route_execution"
               /\ running'
               /\ ~req'.raised
               /\ state'.actions = planner.actions
               /\ state'.results = planner.results
               /\ state'.error = None]_vars
    /\ (running /\ next = "plan_actions")
            ~> ~(running /\ next = "plan_actions")

\* The loop has run max_iterations times and holds a plan.
C20_Witness ==
    /\ running /\ next = "plan_actions"
    /\ planner.iteration = max_iterations
    /\ planner.actions # <<>>

\* The tool is write-classified and lists the action "delete".
IsWriteDelete(tool_name) ==
    /\ tool_name \in DOMAIN TOOL_DEFINITIONS
    /\ TOOL_DEFINITIONS[tool_name].is_write
    /\ "delete" \in Range(TOOL_DEFINITIONS[tool_name].actions)

\* C21: after MetaTools.invoke_tool on a write-classified tool with a
\* delete action the registry was not called, the call returned the
\* pending_confirmation marker and the stash holds the call; after
\* invoke_tool on any other tool the registry was called once with the
\* tool and its parameters, the call returned the registry's Result and
\* the stash is as it was.
C21_InvokeToolStashes ==
    tools.op.name = "invoke_tool" =>
        IF IsWriteDelete(tools.op.tool_name)
        THEN /\ Len(tools.registry) = tools.registry_before
             /\ tools.returned.kind = "pending_confirmation"
             /\ tools.returned.tool_name = tools.op.tool_name
             /\ tools._pending_confirmation =
                    [ tool_name |-> tools.op.tool_name,
                      parameters |-> tools.op.parameters ]
        ELSE /\ Len(tools.registry) = tools.registry_before + 1
             /\ tools.registry[Len(tools.registry)] =
                    [ name |-> tools.op.tool_name,
                      arguments |-> tools.op.parameters ]
             /\ tools.returned.kind = "result"
             /\ tools._pending_confirmation = tools.before

\* A delete was stashed by an earlier call and a write tool without a
\* delete action was then invoked: it went to the registry and the stash
\* still holds the delete.
C21_Witness ==
    /\ tools.op.name = "invoke_tool"
    /\ tools.op.tool_name = "add_calendar_event"
    /\ tools.before.tool_name = "delete_task"
    /\ tools._pending_confirmation.tool_name = "delete_task"
    /\ Len(tools.registry) = 1
    /\ tools.registry[1].name = "add_calendar_event"

\* The names in the answer of discover_tools.
FoundNames == {tools.returned.found[i].name : i \in 1..Len(tools.returned.found)}

\* The tools that satisfy every filter that was supplied.
Satisfying(categories, actions, query) ==
    {n \in DOMAIN TOOL_DEFINITIONS :
        /\ categories # <<>> =>
                TOOL_DEFINITIONS[n].category \in Range(categories)
        /\ actions # <<>> =>
                Range(TOOL_DEFINITIONS[n].actions) \cap Range(actions) # {}
        /\ query \notin {None, ""} => ContainsKeyword(Lower(query), n)}

\* C22: discover_tools returns, once each, exactly the tools that satisfy
\* every filter supplied (a filter that is None or empty does not
\* restrict); the answer is contained in the answer to the same call with
\* any one filter left out; every entry has the fields name, summary,
\* category and is_write and no other, with the values of the definition.
C22_DiscoverIntersects ==
    tools.op.name = "discover_tools" =>
        /\ FoundNames =
                Satisfying(tools.op.categories, tools.op.actions, tools.op.query)
        /\ Cardinality(FoundNames) = Len(tools.returned.found)
        /\ FoundNames \subseteq
                Satisfying(<<>>, tools.op.actions, tools.op.query)
                \cap Satisfying(tools.op.categories, <<>>, tools.op.query)
                \cap Satisfying(tools.op.categories, tools.op.actions, None)
        /\ \A i \in 1..Len(tools.returned.found) :
              LET entry == tools.returned.found[i]
              IN  /\ DOMAIN entry = {"name", "summary", "category", "is_write"}
                  /\ entry.summary = TOOL_DEFINITIONS[entry.name].summary
                  /\ entry.category = TOOL_DEFINITIONS[entry.name].category
                  /\ entry.is_write = TOOL_DEFINITIONS[entry.name].is_write

\* All three filters were supplied and the answer is the one tool in the
\* calendar category with a delete action and "delete" in its name.
C22_Witness ==
    /\ tools.op.name = "discover_tools"
    /\ tools.op.categories = <<"calendar">>
    /\ tools.op.actions = <<"delete">>
    /\ tools.op.query = "Delete"
    /\ FoundNames = {"delete_calendar_event"}

\* C23: the synthesizer decides by first match: with a confirmation
\* message and a pending confirmation, final_response is that message and
\* no model call was made (so none could throw); else with a plan-level
\* error, the error explanation; else with no actions, the model's
\* conversational reply; else the summary with one entry per action of the
\* plan, in plan order. The last two are the branches that call the model.
C23_SynthesizerPrecedence ==
    LastVisited = "synthesize_response" =>
        IF state.confirmation_message.kind # "none"
                /\ Len(state.pending_confirmation) > 0
        THEN /\ ~req.raised
             /\ state.final_response = state.confirmation_message
        ELSE IF state.error # None
        THEN /\ ~req.raised
             /\ state.final_response.kind = "error"
        ELSE IF Len(state.actions) = 0
        THEN req.raised \/ state.final_response.kind = "conversational"
        ELSE \/ req.raised
             \/ /\ state.final_response.kind = "summary"
                /\ Len(state.final_response.lines) = Len(state.actions)
                /\ \A i \in 1..Len(state.actions) :
                      state.final_response.lines[i].tool = state.actions[i].tool

\* A state with a confirmation message, a pending confirmation and an
\* error at once was answered with the confirmation message.
C23_Witness ==
    /\ LastVisited = "synthesize_response"
    /\ state.error # None
    /\ state.actions # <<>>
    /\ state.pending_confirmation # <<>>
    /\ state.confirmation_message.kind = "prompt"
    /\ state.final_response = state.confirmation_message

\* C24: AgentTools.execute_tool returns a Result and does not raise; the
\* Result has success = false when the tool name is unknown, when the
\* arguments fail validation and when the bound method throws; the
\* registry takes the one call; and the bound method is called at most
\* once, and not at all for an unknown tool or invalid arguments.
C24_ExecuteToolNeverRaises ==
    tools.op.name = "execute_tool" =>
        /\ ~tools.raised
        /\ tools.returned.kind = "result"
        /\ Len(tools.registry) = tools.registry_before + 1
        /\ ( \/ tools.op.tool_name \notin DOMAIN TOOL_DEFINITIONS
             \/ ~tools.op.valid
             \/ tools.op.method = "raise" ) => ~tools.returned.success
        /\ IF tools.op.tool_name \in DOMAIN TOOL_DEFINITIONS /\ tools.op.valid
           THEN Len(tools.method) = tools.method_before + 1
           ELSE Len(tools.method) = tools.method_before

\* After a call that ran its method, a call with arguments that fail
\* validation returned a failure and did not reach the method.
C24_Witness ==
    /\ tools.op.name = "execute_tool"
    /\ tools.op.tool_name \in DOMAIN TOOL_DEFINITIONS
    /\ ~tools.op.valid
    /\ tools.op.method = "ok"
    /\ tools.returned.error = "validation_error"
    /\ ~tools.returned.success
    /\ Len(tools.method) = 1
    /\ Len(tools.registry) = 2

\* The sequential executor had invoked the action named ref before it made
\* the invocation c.
ExecutedBefore(ref, c) ==
    \E b \in CallsOf("execute_sequential") : b < c /\ IdName(calls[b].id) = ref

\* The args the plan stores for the action of the invocation c.
StoredArgs(c) == ActionById(state.actions, calls[c].id).args

\* C25: an action whose stored args have the key from_result with the id of
\* an action the sequential executor has already executed is invoked
\* without an argument from_result.
C25_FromResultMerged ==
    \A c \in CallsOf("execute_sequential") :
        ( /\ "from_result" \in DOMAIN StoredArgs(c)
          /\ ExecutedBefore(StoredArgs(c).from_result, c) )
        => "from_result" \notin DOMAIN calls[c].args

\* C26: in every invocation of the sequential executor an argument whose
\* stored value is the id of an action executed before is passed as that
\* action's result payload, every other argument is passed with its stored
\* value, and the args stored in the plan are what they were.
C26_ReferencesReplaced ==
    /\ \A c \in CallsOf("execute_sequential") :
          \A key \in DOMAIN StoredArgs(c) :
              /\ key \in DOMAIN calls[c].args
              /\ IF ExecutedBefore(StoredArgs(c)[key], c)
                 THEN calls[c].args[key] \in
                        { "data:" \o StoredArgs(c)[key],
                          "result:" \o StoredArgs(c)[key] }
                 ELSE calls[c].args[key] = StoredArgs(c)[key]
    /\ "execute_sequential" \in Range(req.visited) =>
          state.actions = req.stored_actions

\* The second action names the first in one argument and an action not yet
\* executed in none; the first was invoked, then the second with the
\* payload of the first in place of the id.
C26_Witness ==
    /\ "execute_sequential" \in Range(req.visited)
    /\ Len(calls) = 2
    /\ calls[1].id = 1 /\ calls[2].id = 2
    /\ state.actions[2].args = [title |-> IdName(1)]
    /\ state.actions[2].depends_on = <<1>>
    /\ calls[2].args = [title |-> "result:a1"]
    /\ calls[1].args = state.actions[1].args

\* The planner of the invocation in progress has returned its plan.
Planned == "plan_actions" \in Range(req.visited) /\ ~req.raised

\* C27: once the planner of a turn has returned, an entry of results is
\* neither replaced nor removed by a later step of the turn.
C27_ResultsAppendOnly ==
    [][(Planned /\ turn' = turn) =>
            \A id \in DOMAIN state.results :
                /\ id \in DOMAIN state'.results
                /\ state'.results[id] = state.results[id]]_vars

\* How often the invocation in progress ran a node of the set.
Visits(nodes) ==
    Cardinality({i \in 1..Len(req.visited) : req.visited[i] \in nodes})

UniqueIds(actions) ==
    \A i, j \in 1..Len(actions) : actions[i].id = actions[j].id => i = j

\* The ids of the plan in plan order.
IdsOf(actions) == [i \in 1..Len(actions) |-> actions[i].id]

\* C30: the ids of the plan the planner builds and of the plan the thread
\* holds are pairwise distinct; every key of results is the id of exactly
\* one action of the plan; once the planner has returned, no step of the
\* turn changes the ids of the plan; and confirm_actions and
\* process_confirmation, applied to the thread's state, keep the id of
\* every action they keep.
C30_IdsUniqueAndStable ==
    /\ [](/\ UniqueIds(planner.actions)
          /\ UniqueIds(state.actions)
          /\ \A id \in DOMAIN state.results :
                Cardinality({i \in 1..Len(state.actions) :
                                state.actions[i].id = id}) = 1
          /\ IdsOf(confirm_actions(state).actions) = IdsOf(state.actions)
          /\ UniqueIds(process_confirmation(state).actions)
          /\ \A i \in 1..Len(process_confirmation(state).actions) :
                process_confirmation(state).actions[i] \in Range(state.actions))
    /\ [][(Planned /\ turn' = turn) =>
                IdsOf(state'.actions) = IdsOf(state.actions)]_vars

\* The thread holds a plan of a read and a delete under the ids 1 and 2
\* whose cancellation would keep the read under its id.
C30_Witness ==
    /\ Planned
    /\ Len(state.actions) = 2
    /\ IdsOf(state.actions) = <<1, 2>>
    /\ ~IsDestructive(state.actions[1])
    /\ IsDestructive(state.actions[2])
    /\ 1 \in DOMAIN state.results
    /\ Normalize(state.user_confirmation) \in NegativeTokens
    /\ IdsOf(process_confirmation(state).actions) = <<1>>

\* The invoke_tool calls among the names of a response.
InvokeToolCalls(response) ==
    Cardinality({i \in 1..Len(response) : response[i] = "invoke_tool"})

\* C31: every call of the model's latest response whose name is none of
\* the three meta-tools has a ToolMessage with the error object as its
\* content; a response adds as many actions as it has invoke_tool calls;
\* and the planner goes on after it (the loop's next iteration, or the
\* node's return) without raising.
C31_UnknownCallAnswered ==
    /\ [](\A i \in 1..Len(planner.response) :
            planner.response[i] \notin MetaToolNames =>
                /\ i \in 1..Len(planner.messages)
                /\ planner.messages[i] = UnknownMetaTool(planner.response[i]))
    /\ [][planner'.iteration = planner.iteration + 1 =>
                /\ Len(planner'.actions) =
                        Len(planner.actions) + InvokeToolCalls(planner'.response)
                /\ running' /\ next' = "plan_actions" /\ ~req'.raised]_vars
    /\ [][(planner.mode = "dspy" /\ next = "plan_actions"
                /\ next' = "route_execution" /\ state'.error = None) =>
                Len(state'.actions) = InvokeToolCalls(planner'.response)]_vars

\* process_confirmation has run on the thread's state.
Processed == LastVisited = "process_confirmation"

\* The state but for the reply it holds.
WithReply(s, r) == [s EXCEPT !.user_confirmation = r]

\* C32: process_confirmation run on a reply that is None, empty or blank
\* raises nothing, leaves the re-prompt as the confirmation message and
\* keeps the actions and the pending ones; and a reply in another case or
\* with spaces around it is processed as the trimmed lower-case word is.
C32_NoReplyReprompts ==
    /\ (Processed /\ req.reply \in {None, "", "  "}) =>
            /\ ~req.raised
            /\ state.confirmation_message.kind = "reprompt"
            /\ state.actions = req.stored_actions
            /\ state.pending_confirmation =
                    DestructiveActions(req.stored_actions)
    /\ (Processed /\ req.reply \in {" Yes ", "NO", " Edit"}) =>
            /\ ~req.raised
            /\ WithReply(state, Normalize(req.reply)) =
                    process_confirmation(
                        WithReply(confirm_actions(
                            [state EXCEPT !.actions = req.stored_actions]),
                                  Normalize(req.reply)))

\* The invocations made since the invocation of the graph started.
TurnCalls == (req.calls_before + 1)..Len(calls)

\* C33: among the invocations of one turn no two are made for the same
\* action.
C33_InvokedAtMostOnce ==
    \A c1, c2 \in TurnCalls : calls[c1].id = calls[c2].id => c1 = c2

\* The sequential executor invoked the action named ref before the
\* invocation c, and that invocation failed or raised.
FailedBefore(ref, c) ==
    \E b \in CallsOf("execute_sequential") :
        b < c /\ IdName(calls[b].id) = ref /\ calls[b].outcome # "ok"

\* C34: when the sequential executor has returned, every action of its
\* order has been invoked and has a result, and an argument whose stored
\* value names an action that failed before is passed as an empty value or
\* not at all.
C34_FailedReferenceEmpty ==
    "execute_sequential" \in Range(req.visited) =>
        /\ \A a \in Range(_topological_sort(state.actions)) :
                /\ SequentialCallsFor(a.id) # {}
                /\ a.id \in DOMAIN state.results
        /\ \A c \in CallsOf("execute_sequential") :
                \A key \in DOMAIN StoredArgs(c) :
                    FailedBefore(StoredArgs(c)[key], c) =>
                        \/ key \notin DOMAIN calls[c].args
                        \/ calls[c].args[key] = ""

\* The place of the action id in the order the sequential executor invoked
\* the plan in (0: not invoked).
Place(id) ==
    IF SequentialCallsFor(id) = {} THEN 0
    ELSE (CHOOSE c \in SequentialCallsFor(id) : TRUE) - req.calls_before

\* The place in plan order.
PlanIndex(id) == CHOOSE i \in 1..Len(state.actions) : state.actions[i].id = id

\* The place at which the action became ready: that of the last of its
\* dependencies to be invoked (0: it had none).
ReadyAt(id) ==
    LET deps == Range(ActionById(state.actions, id).depends_on)
    IN  IF deps = {} THEN 0
        ELSE CHOOSE m \in {Place(d) : d \in deps} :
                \A d \in deps : Place(d) <= m

\* C35: when the sequential executor has returned, of two actions it
\* invoked the one that became ready earlier was invoked first, and of two
\* that became ready at the same place (with no dependencies, or released
\* by the same action) the one earlier in the plan was invoked first; so
\* the order is fixed by the plan.
C35_FifoOrder ==
    "execute_sequential" \in Range(req.visited) =>
        \A x, y \in {id \in PlanIds(state.actions) : Place(id) > 0} :
            ( \/ ReadyAt(x) < ReadyAt(y)
              \/ ReadyAt(x) = ReadyAt(y) /\ PlanIndex(x) < PlanIndex(y) )
            => Place(x) < Place(y)

\* Of the plan a1, a2 (depends on a1), a3 the executor invoked a1, then a3,
\* which was ready from the start, and a2, released by a1, last.
C35_Witness ==
    /\ "execute_sequential" \in Range(req.visited)
    /\ Len(state.actions) = 3
    /\ state.actions[1].depends_on = <<>>
    /\ state.actions[2].depends_on = <<1>>
    /\ state.actions[3].depends_on = <<>>
    /\ Len(calls) = 3
    /\ calls[1].id = 1 /\ calls[2].id = 3 /\ calls[3].id = 2

\* C36: under either strategy every action the planner holds or has
\* returned has an empty depends_on, and route_execution run on the
\* planner's plan sets the mode parallel or confirm and the run goes on to
\* the parallel executor or to the gate.
C36_PlannerNeverSequential ==
    /\ \A i \in 1..Len(planner.actions) : planner.actions[i].depends_on = <<>>
    /\ Planned =>
            \A i \in 1..Len(state.actions) : state.actions[i].depends_on = <<>>
    /\ (LastVisited = "route_execution" /\ Planned) =>
            /\ state.execution_mode \in {"parallel", "confirm"}
            /\ next \in {"execute_parallel", "confirm_actions"}

\* The DSPy strategy returned a plan of two non-destructive actions on a
\* thread whose earlier plan had a dependency, and the router chose the
\* parallel executor.
C36_Witness ==
    /\ LastVisited = "route_execution"
    /\ planner.mode = "dspy"
    /\ AnyDependsOn(req.stored_actions)
    /\ Len(state.actions) = 2
    /\ DestructiveActions(state.actions) = <<>>
    /\ state.execution_mode = "parallel"
    /\ next = "execute_parallel"

\* C37: a call other than execute_pending and clear_pending_confirmation
\* leaves a stashed call in the stash; execute_pending on a stashed call
\* makes one registry call, for that call, and empties the stash; and
\* execute_pending on an empty stash makes no registry call and returns
\* the error object.
C37_StashKeptUntilReleased ==
    /\ ( /\ tools.before # NoStash
         /\ tools.op.name \notin {"execute_pending",
                                   "clear_pending_confirmation"} )
        => tools._pending_confirmation = tools.before
    /\ (tools.op.name = "execute_pending" /\ tools.before # NoStash) =>
            /\ Len(tools.registry) = tools.registry_before + 1
            /\ tools.registry[Len(tools.registry)] =
                    [ name |-> tools.before.tool_name,
                      arguments |-> tools.before.parameters ]
            /\ tools._pending_confirmation = NoStash
    /\ (tools.op.name = "execute_pending" /\ tools.before = NoStash) =>
            /\ Len(tools.registry) = tools.registry_before
            /\ tools.returned.kind = "error"
            /\ tools._pending_confirmation = NoStash

\* C38: while the parallel executor runs, the thread's state changes in
\* one step only: the executor's return, taken when the collecting thread
\* has read every future and every worker has ended, which writes the
\* collecting thread's results, one for every action, and nothing else;
\* no step of a worker changes the state, and the executor returns once.
C38_WorkersNeverWriteState ==
    /\ [][state' # state =>
            /\ req.pool.open
            /\ req.pool.collected = Len(req.pool.futures)
            /\ \A i \in 1..Len(req.pool.futures) :
                    req.pool.futures[i] # "running"
            /\ \A i \in 1..Len(state.actions) :
                    state.actions[i].id \in DOMAIN req.pool.results
            /\ state' = [state EXCEPT !.results = req.pool.results]
            /\ LastVisited' = "execute_parallel"]_vars
    /\ [][calls' # calls => state' = state]_vars
    /\ [](Visits({"execute_parallel"}) <= 1)

\* The executor returned for a plan of two actions: the first future was
\* read as timed out before its worker ended, the second after its worker
\* had failed, and the state holds the timeout Result and the failure.
C38_Witness ==
    /\ LastVisited = "execute_parallel"
    /\ Len(state.actions) = 2
    /\ Len(calls) = 2
    /\ calls[1].id = 2 /\ calls[1].outcome = "fail"
    /\ calls[2].id = 1 /\ calls[2].outcome = "ok"
    /\ state.results[1] = ParallelResult("timeout")
    /\ state.results[2] = ParallelResult("fail")

\* The state but for one field each.
ButMode(s) == [s EXCEPT !.execution_mode = "parallel"]
ButResults(s) == [s EXCEPT !.results = EmptyArgs]

\* C39: the step of route_execution makes no invocation and leaves every
\* field of the state but execution_mode as it was; the step of either
\* executor leaves every field but results as it was and keeps every
\* result stored under an id that is not in the plan.
C39_FrameConditions ==
    /\ [][LastVisited' = "route_execution" /\ req'.visited # req.visited =>
            /\ ButMode(state') = ButMode(state)
            /\ calls' = calls]_vars
    /\ [][( /\ LastVisited' \in {"execute_parallel", "execute_sequential"}
            /\ req'.visited # req.visited ) =>
            /\ ButResults(state') = ButResults(state)
            /\ \A id \in DOMAIN state.results \ PlanIds(state.actions) :
                    /\ id \in DOMAIN state'.results
                    /\ state'.results[id] = state.results[id]]_vars

\* The parallel executor ran a confirmed plan on a thread that held a
\* result under an id outside the plan, an error and a confirmation
\* message: all three are still there beside the new results.
C39_Witness ==
    /\ LastVisited = "execute_parallel"
    /\ Len(state.actions) = 2
    /\ DestructiveActions(state.actions) # <<>>
    /\ StaleId \in DOMAIN state.results
    /\ \A id \in PlanIds(state.actions) : id \in DOMAIN state.results
    /\ state.error = "planning failed"
    /\ state.confirmation_message.kind # "none"
    /\ state.execution_mode = "confirm"
    /\ Len(calls) = 2

\* C40: Agent.process_message executes a destructive tool
\* (delete_calendar_event, delete_task) the model proposed only when the
\* user has confirmed it: every destructive call the loop executed was made
\* after the user had sent an affirmative reply.
C40_DestructiveOnlyConfirmed ==
    \A i \in 1..Len(tools.agent.executed) :
        _is_destructive_action(tools.agent.executed[i].tool_name) =>
            \E input \in tools.agent.executed[i].inputs :
                Normalize(input) \in AffirmativeTokens

====
